---- MODULE Spec2Model ----
(***************************************************************************)
(* A model of the hypersdk-wasm contract runtime:                          *)
(*   - the call orchestrator WasmRuntime.CallContract / getModule /        *)
(*     validateModule / getInstance and ContractInstance.call /            *)
(*     writeToMemory, with EphemeralInstance.Execute as a second entry;    *)
(*   - the fuel helpers of CallInfo;                                       *)
(*   - the simulator state (SimulatorState, ContractState) and the         *)
(*     runtime's prefixedState view;                                       *)
(*   - the module validators (WasmRuntime.validateModule and the           *)
(*     validators package's DefaultValidator);                             *)
(*   - the resource layer: BaseResource's encoding, resourceManager and    *)
(*     ResourceContract.                                                   *)
(* Spec is the orchestrator; SpecSim is the simulator's key/value store    *)
(* with its contract-scoped views and account table; SpecBalance is the    *)
(* simulator's ledger; SpecPar is CallContract driven by several threads;  *)
(* SpecVal is module validation; SpecMarshal is Marshal followed by        *)
(* Unmarshal; SpecRC is resource contracts on one resourceManager; SpecRM  *)
(* is the resourceManager called directly; SpecSimCon and SpecBalCon are   *)
(* goroutines on the simulator's store and ledger; SpecRCCon is goroutines *)
(* calling through resource contracts; SpecNested is CallContract with     *)
(* nested call_contract invocations; SpecFFI is the exported CallContract  *)
(* of the simulator's ffi package; SpecLive is goroutines calling          *)
(* resourceManager, TypeSystem and SimulatorState under weak fairness.     *)
(***************************************************************************)
EXTENDS Integers, Sequences, FiniteSets, TLC

VARIABLES
    pc,            \* position of the invocation in CallContract / Execute / call
    ci,            \* the CallInfo of the invocation in progress
    cid,           \* ContractID resolved by GetAccountContract
    inst,          \* the module bound to the invocation's store (ContractInstance)
    store,         \* key of the invocation's store (0: none)
    fuel,          \* fuel counter of the invocation's store
    balances,      \* TestStateManager.Balances
    contractCache, \* WasmRuntime.contractCache, most recently used first
    callerInfo,    \* WasmRuntime.callerInfo: store key -> CallInfo
    events,        \* what the invocation in progress has done so far, in order
    res,           \* outcome of the last finished invocation
    began,         \* snapshot taken when the invocation began
    last,          \* the last host fuel operation and its outcome
    data,          \* SimulatorState.data, or the state.Mutable under prefixedState
    view,          \* the contract-scoped view in use: ContractState or prefixedState
    accountSet,    \* account -> the ContractID last given to SetAccountContract
    simLast,       \* the last state operation and its outcome
    tpc,           \* parallel invocations: position of each thread in CallContract
    tstore,        \* parallel invocations: key of each thread's store (0: none)
    tgot,          \* parallel invocations: what each thread's last getCallInfo returned
    racy,          \* parallel invocations: the thread's map access overlapped a write
    vcfg,          \* validation: the DefaultValidator in use (its rules)
    vmod,          \* validation: the module handed to the validator
    vres,          \* validation: what each entry point returned for vmod
    rin,           \* resources: the BaseResource handed to Marshal
    rbuf,          \* resources: the bytes handed to Unmarshal
    rout,          \* resources: what Unmarshal returned and the receiver it filled
    rdb,           \* resources: resourceManager.db, resourceKey -> stored bytes
    rowner,        \* resources: id -> the owner the resource was last written with
    rlast,         \* resources: the last ResourceContract operation and its outcome
    gs,            \* goroutines: each goroutine's call in progress, its position and locals
    mu,            \* goroutines: the sync.RWMutex of each shared object
    frames         \* nested calls: the invocations suspended in call_contract

vars == << pc, ci, cid, inst, store, fuel, balances, contractCache, callerInfo,
           events, res, began, last, data, view, accountSet, simLast,
           tpc, tstore, tgot, racy, vcfg, vmod, vres,
           rin, rbuf, rout, rdb, rowner, rlast, gs, mu, frames >>

runtimeVars == << pc, ci, cid, inst, store, fuel, balances, contractCache,
                  callerInfo, events, res, began, last >>

simVars == << data, view, accountSet, simLast >>

parVars == << tpc, tstore, tgot, racy >>

\* the state outside WasmRuntime's single invocation, and outside the simulator
valVars == << vcfg, vmod, vres >>

\* the resource layer: BaseResource's encoding, resourceManager, ResourceContract
resVars == << rin, rbuf, rout, rdb, rowner, rlast >>

\* goroutines calling into SimulatorState, resourceManager and TypeSystem
conVars == << gs, mu >>

\* the invocations suspended in the call_contract host import, innermost first
nestVars == << frames >>

extVars == << parVars, valVars, resVars, conVars, nestVars >>

otherThanRuntime == << simVars, extVars >>

otherThanSim == << runtimeVars, extVars >>

----------------------------------------------------------------------------
(* Bounds of the model *)

\* largest value of the scaled unsigned integer type (uint64 in the source)
MaxUint == 3
\* largest CallInfo.Fuel tried
MaxFuel == 1
\* largest CallInfo.Value tried
MaxValue == 2
\* largest initial balance of the actor
MaxBalance == 1
\* number of entries the contract cache holds before it evicts
CacheCapacity == 1
\* number of threads driving CallContract on one runtime
NumThreads == 2
\* the page limit given to WithCustomMemoryLimits
CustomMaxPages == 8
\* longest BaseResource data tried, in bytes
MaxDataLen == 2
\* number of goroutines calling into one shared object
NumGoroutines == 2
\* number of calls each goroutine makes, one after the other
MaxCalls == 2
\* number of calls each goroutine makes where termination is checked
LiveCalls == 1

UintMod == MaxUint + 1

----------------------------------------------------------------------------
(* Addresses *)

AddressLen == 33

\* codec.Address{b}: first byte b, the rest zero
Addr(b) == [i \in 1..AddressLen |-> IF i = 1 THEN b ELSE 0]

EmptyAddress == Addr(0)

----------------------------------------------------------------------------
(* Resource limits: DefaultResourceLimits *)

MaxContractSize == 1048576
MaxFunctions == 1000
MaxImports == 100
MaxExports == 100
MaxGlobals == 100
MaxMemoryPages == 16
MaxTableSize == 10000

----------------------------------------------------------------------------
(* Errors *)

NoError == [type |-> "nil", rule |-> "", msg |-> "", cause |-> ""]

\* NewValidationError(msg, rule, cause)
NewValidationError(msg, rule, cause) ==
    [type |-> "ValidationError", rule |-> rule, msg |-> msg, cause |-> cause]

\* errors.New / fmt.Errorf
PlainError(msg) == [type |-> "error", rule |-> "", msg |-> msg, cause |-> ""]

----------------------------------------------------------------------------
(* Bytecode.  A module is described by what the engine reports of it:      *)
(* its length, whether it parses, its exports and imports by kind, its     *)
(* memory and table types, and whether the linker can instantiate it.      *)

GoodModule ==
    [ size         |-> MaxContractSize,
      parses       |-> TRUE,
      nExports     |-> MaxExports,  \* len(mod.Exports())
      nImports     |-> MaxImports,  \* len(mod.Imports())
      nFuncs       |-> 150,    \* function-typed exports and imports
      nGlobals     |-> 0,      \* global-typed exports and imports
      memDeclared  |-> TRUE,
      memExported  |-> TRUE,   \* exported under the name "memory"
      memMin       |-> 1,
      memHasMax    |-> TRUE,
      memMax       |-> 16,
      tblExported  |-> FALSE,
      tblMin       |-> 0,
      tblHasMax    |-> FALSE,
      tblMax       |-> 0,
      instantiates |-> TRUE,   \* linker.Instantiate succeeds
      exportsAlloc |-> TRUE,   \* exports the function "alloc"
      expKinds     |-> {"i32"},  \* value kinds in the exported functions' signatures
      impKinds     |-> {"i32"},  \* value kinds in the imported functions' signatures
      usesGrow     |-> FALSE,  \* the code section holds a memory.grow instruction
      entries      |-> {"run"} \* the other exported functions
    ]

\* the contract IDs of the bytecode stored in the state manager
ContractIDs == 1..10

\* ContractManager.GetContractBytes: the bytecode stored under each ID
ContractBytes(id) ==
    CASE id = 1  -> GoodModule
      [] id = 2  -> [GoodModule EXCEPT !.size = MaxContractSize + 1]
      [] id = 3  -> [GoodModule EXCEPT !.parses = FALSE]
      [] id = 4  -> [GoodModule EXCEPT !.nExports = MaxExports + 1, !.nFuncs = 151]
      [] id = 5  -> [GoodModule EXCEPT !.nImports = MaxImports + 1, !.nFuncs = 151]
      [] id = 6  -> [GoodModule EXCEPT !.nExports = MaxFunctions, !.nImports = 1,
                                       !.nFuncs = MaxFunctions + 1]
      [] id = 7  -> [GoodModule EXCEPT !.memMin = MaxMemoryPages + 1, !.memMax = 32]
      [] id = 8  -> [GoodModule EXCEPT !.exportsAlloc = FALSE, !.nExports = MaxExports - 1,
                                       !.nFuncs = 149]
      [] id = 9  -> [GoodModule EXCEPT !.memDeclared = FALSE, !.memExported = FALSE,
                                       !.nExports = MaxExports - 1]
      [] OTHER   -> [GoodModule EXCEPT !.instantiates = FALSE]

----------------------------------------------------------------------------
(* WasmRuntime.validateModule and the checks of getModule *)

\* validateModule: parse, then exports+imports, imports, exports against the limits
validateModule(m) ==
    IF ~m.parses THEN NewValidationError("failed to parse module", "", "engine")
    ELSE IF m.nExports + m.nImports > MaxFunctions
         THEN NewValidationError("function count exceeds maximum", "function-count", "")
    ELSE IF m.nImports > MaxImports
         THEN NewValidationError("import count exceeds maximum", "import-count", "")
    ELSE IF m.nExports > MaxExports
         THEN NewValidationError("export count exceeds maximum", "export-count", "")
    ELSE NoError

\* a getModule whose size check also rejects bytecode of exactly MaxContractSize
compileModule_AtLimit(m) ==
    IF m.size >= MaxContractSize
    THEN NewValidationError("contract size exceeds maximum", "contract-size", "")
    ELSE validateModule(m)

\* getModule after a cache miss: size check, validateModule, wasmtime.NewModule
compileModule(m) ==
    IF m.size > MaxContractSize
    THEN NewValidationError("contract size exceeds maximum", "contract-size", "")
    ELSE IF validateModule(m) # NoError THEN validateModule(m)
    ELSE IF ~m.parses THEN NewValidationError("failed to create module", "", "engine")
    ELSE NoError

----------------------------------------------------------------------------
(* DefaultValidator: the validator of the policy *)

ErrResourceLimitExceeded == "resource limit exceeded"

\* defaultSecurityRules
defaultSecurityRules ==
    << [type |-> "instruction", name |-> "default-instructions", allow |-> {},
        deny |-> {"table.get", "table.set", "table.size", "table.grow", "table.fill",
                  "table.init", "elem.drop", "data.drop", "table.copy"},
        validator |-> "nil", maxPages |-> 0],
       [type |-> "memory", name |-> "default-memory", allow |-> {},
        deny |-> {"memory.grow"}, validator |-> "nil", maxPages |-> 0] >>

\* the rule WithDeterministicFloatingPoint adds
StrictFloatRule ==
    [type |-> "floating_point", name |-> "strict-float",
     allow |-> {"f32.add", "f32.sub", "f32.mul", "f32.div",
                "f64.add", "f64.sub", "f64.mul", "f64.div"},
     deny |-> {"f32.nearest", "f32.ceil", "f32.floor", "f32.trunc",
               "f64.nearest", "f64.ceil", "f64.floor", "f64.trunc"},
     validator |-> "nil", maxPages |-> 0]

\* the rule WithRestrictedInstructions adds
RestrictedInstructionsRule ==
    [type |-> "instruction", name |-> "restricted-instructions", allow |-> {},
     deny |-> {"memory.grow", "memory.size", "table.grow", "table.size", "unreachable"},
     validator |-> "nil", maxPages |-> 0]

\* the rule WithCustomMemoryLimits(maxPages) adds
CustomMemoryLimitsRule(maxPages) ==
    [type |-> "memory", name |-> "custom-memory-limits", allow |-> {}, deny |-> {},
     validator |-> "memoryLimits", maxPages |-> maxPages]

\* a RuleTypeCustom rule whose Validator returns an error for every module
RejectingRule(name) ==
    [type |-> "custom", name |-> name, allow |-> {}, deny |-> {},
     validator |-> "reject", maxPages |-> 0]

\* SecurityRule.Validator applied to the module
RuleValidator(rule, m) ==
    CASE rule.validator = "reject" -> PlainError("rejected")
      [] rule.validator = "memoryLimits" ->
            IF m.memDeclared /\ m.memExported
               /\ (m.memMin > rule.maxPages \/ (m.memHasMax /\ m.memMax > rule.maxPages))
            THEN NewValidationError("memory-limits", "memory pages exceed custom limit",
                                    ErrResourceLimitExceeded)
            ELSE NoError
      [] OTHER -> NoError

\* validateType: the kind's name is looked up in the deny list
validateType(kind, rule) ==
    IF rule.deny = {} THEN NoError
    ELSE IF kind \in rule.deny THEN PlainError("type is not allowed")
    ELSE NoError

\* validateInstructions: only the value kinds of function signatures are seen
validateInstructions(m, rule) ==
    IF \E k \in m.expKinds : validateType(k, rule) # NoError
    THEN NewValidationError("invalid type in export", rule.name, "type is not allowed")
    ELSE IF \E k \in m.impKinds : validateType(k, rule) # NoError
    THEN NewValidationError("invalid type in import", rule.name, "type is not allowed")
    ELSE NoError

\* validateFloatingPoint: floats in exported signatures, unless an allow list is set
validateFloatingPoint(m, rule) ==
    IF m.expKinds \cap {"f32", "f64"} # {} /\ rule.allow = {}
    THEN NewValidationError("floating point operations not allowed", rule.name, "")
    ELSE NoError

\* validateMemoryOperations: an exported memory without maximum, memory.grow denied
validateMemoryOperations(m, rule) ==
    IF m.memDeclared /\ m.memExported /\ "memory.grow" \in rule.deny /\ ~m.memHasMax
    THEN NewValidationError("unbounded memory growth not allowed", rule.name, "")
    ELSE NoError

\* one iteration of the loop of ValidateSecurityRules
ApplyRule(m, rule) ==
    CASE rule.type = "instruction" -> validateInstructions(m, rule)
      [] rule.type = "floating_point" -> validateFloatingPoint(m, rule)
      [] rule.type = "memory" -> validateMemoryOperations(m, rule)
      [] rule.type = "custom" ->
            IF rule.validator # "nil" /\ RuleValidator(rule, m) # NoError
            THEN NewValidationError("custom validation failed", rule.name, "custom")
            ELSE NoError
      [] OTHER -> NoError

\* DefaultValidator.ValidateSecurityRules: the first error in the rules' order
RECURSIVE ValidateSecurityRules(_, _)
ValidateSecurityRules(m, rules) ==
    IF rules = <<>> THEN NoError
    ELSE IF ApplyRule(m, Head(rules)) # NoError THEN ApplyRule(m, Head(rules))
    ELSE ValidateSecurityRules(m, Tail(rules))

\* a ValidateResourceLimits that also rejects a count equal to its limit
ValidateResourceLimits_AtLimit(m) ==
    IF \/ m.nFuncs >= MaxFunctions \/ m.nExports >= MaxExports
       \/ m.nImports >= MaxImports \/ m.nGlobals >= MaxGlobals
    THEN NewValidationError("count exceeds limit", "resource-limits", ErrResourceLimitExceeded)
    ELSE NoError

\* DefaultValidator.ValidateResourceLimits
ValidateResourceLimits(m) ==
    LET exceeded(msg) == NewValidationError(msg, "resource-limits", ErrResourceLimitExceeded) IN
    IF m.nFuncs > MaxFunctions THEN exceeded("function count exceeds limit")
    ELSE IF m.nExports > MaxExports THEN exceeded("export count exceeds limit")
    ELSE IF m.nImports > MaxImports THEN exceeded("import count exceeds limit")
    ELSE IF m.nGlobals > MaxGlobals THEN exceeded("global count exceeds limit")
    ELSE IF m.memDeclared /\ m.memExported /\ m.memMin > MaxMemoryPages
         THEN exceeded("minimum memory pages exceeds limit")
    ELSE IF m.memDeclared /\ m.memExported /\ m.memHasMax /\ m.memMax > MaxMemoryPages
         THEN exceeded("maximum memory pages exceeds limit")
    ELSE IF m.tblExported /\ m.tblMin > MaxTableSize
         THEN exceeded("minimum table size exceeds limit")
    ELSE IF m.tblExported /\ m.tblHasMax /\ m.tblMax > MaxTableSize
         THEN exceeded("maximum table size exceeds limit")
    ELSE NoError

\* a DefaultValidator: its default rules and its custom rules
Validator(defaultRules, customRules) ==
    [defaultRules |-> defaultRules, customRules |-> customRules]

\* NewDefaultValidatorWithOptions()
DefaultValidator == Validator(defaultSecurityRules, <<>>)

\* DefaultValidator.ValidateModule of the validator v
ValidateModuleWith(v, m) ==
    IF m.size > MaxContractSize
    THEN NewValidationError("contract size exceeds maximum allowed", "contract-size",
                            ErrResourceLimitExceeded)
    ELSE IF ~m.parses THEN NewValidationError("failed to parse module", "parse", "engine")
    ELSE IF ValidateSecurityRules(m, v.defaultRules) # NoError
         THEN ValidateSecurityRules(m, v.defaultRules)
    ELSE IF ValidateSecurityRules(m, v.customRules) # NoError
         THEN ValidateSecurityRules(m, v.customRules)
    ELSE ValidateResourceLimits(m)

\* DefaultValidator.ValidateModule with the default rules and no custom rule
ValidateModule(m) == ValidateModuleWith(DefaultValidator, m)

----------------------------------------------------------------------------
(* The state manager seen by the orchestrator *)

Actor == Addr(1)

\* the account that holds the contract with the given ID
ContractAddr(id) == Addr(100 + id)

\* an account with no contract
UnknownAccount == Addr(99)

ContractAccounts == {ContractAddr(id) : id \in ContractIDs}

Accounts == {Actor, UnknownAccount} \cup ContractAccounts

\* ContractManager.GetAccountContract: the account's ContractID, 0 when it has none
State_GetAccountContract(account) ==
    IF account \in ContractAccounts THEN account[1] - 100 ELSE 0

\* TestStateManager.GetBalance
TestStateManager_GetBalance(bal, address) == bal[address]

\* TestStateManager.TransferBalance: the error and the balances afterwards
TestStateManager_TransferBalance(bal, from, to, amount) ==
    IF TestStateManager_GetBalance(bal, from) < amount
    THEN [err |-> PlainError("insufficient balance"), bal |-> bal]
    ELSE LET debited == [bal EXCEPT ![from] = (@ - amount) % UintMod]
         IN  [err |-> NoError,
              bal |-> [debited EXCEPT ![to] = (@ + amount) % UintMod]]

----------------------------------------------------------------------------
(* The contract cache: cache.NewSizedLRU, most recently used first *)

CacheIDs(cache) == {cache[i].id : i \in 1..Len(cache)}

CacheIndex(cache, id) == CHOOSE i \in 1..Len(cache) : cache[i].id = id

WithoutID(cache, id) == SelectSeq(cache, LAMBDA e : e.id # id)

\* contractCache.Get on a hit: the entry becomes the most recent one
CacheTouch(cache, id) == <<cache[CacheIndex(cache, id)]>> \o WithoutID(cache, id)

\* contractCache.Put: insert as most recent, evict the least recent ones
CachePut(cache, id, m) ==
    LET put == <<[id |-> id, mod |-> m]>> \o WithoutID(cache, id)
    IN  SubSeq(put, 1, IF Len(put) > CacheCapacity THEN CacheCapacity ELSE Len(put))

----------------------------------------------------------------------------
(* CallInfo and the store-keyed map *)

FunctionNames == {"run", "missing"}

CallInfos ==
    [ contract : ContractAccounts \cup {UnknownAccount},
      actor    : {Actor},
      fn       : FunctionNames,
      fuel     : {0, MaxFuel},
      value    : {0, 1, MaxValue},
      via      : {"CallContract"} ]

NoCall == [contract |-> EmptyAddress, actor |-> EmptyAddress, fn |-> "",
           fuel |-> 0, value |-> 0, via |-> ""]

\* toMapKey: the keys a store's context pointer can take
StoreKeys == 1..2

\* setCallInfo
setCallInfo(map, key, info) == (key :> info) @@ map

\* a deleteCallInfo that leaves the entry behind
deleteCallInfo_Keep(map, key) == map

\* deleteCallInfo
deleteCallInfo(map, key) == [k \in (DOMAIN map) \ {key} |-> map[k]]

NoFuelOp == [op |-> "", n |-> 0, before |-> 0, after |-> 0, err |-> NoError]

Finished(e) == [err |-> e, returned |-> TRUE]

Pending(e) == [err |-> e, returned |-> FALSE]

----------------------------------------------------------------------------
(* The orchestrator: WasmRuntime.CallContract *)

\* CallContract up to the call of getModule: resolve the account's contract
CallContract(c) ==
    /\ pc = "idle"
    /\ ci' = c
    /\ events' = <<>>
    /\ began' = [balances |-> balances, entryFuel |-> -1]
    /\ last' = NoFuelOp
    /\ inst' = GoodModule
    /\ IF State_GetAccountContract(c.contract) = 0
       THEN /\ res' = Pending(PlainError("account has no contract"))
            /\ pc' = "return"
            /\ cid' = 0
       ELSE /\ res' = Pending(NoError)
            /\ pc' = "getModule"
            /\ cid' = State_GetAccountContract(c.contract)
    /\ UNCHANGED << store, fuel, balances, contractCache, callerInfo >>
    /\ UNCHANGED otherThanRuntime

\* a CallContract that goes on after getModule failed
AfterGetModule_IgnoreError(e) == "getInstance"

\* where CallContract goes after getModule returned the error e
AfterGetModule(e) == IF e # NoError THEN "return" ELSE "getInstance"

\* WasmRuntime.getModule
getModule ==
    /\ pc = "getModule"
    /\ IF cid \in CacheIDs(contractCache)
       THEN /\ inst' = contractCache[CacheIndex(contractCache, cid)].mod
            /\ contractCache' = CacheTouch(contractCache, cid)
            /\ pc' = "getInstance"
            /\ UNCHANGED << res, events >>
       ELSE LET m == ContractBytes(cid)
                e == compileModule(m)
            IN  /\ inst' = m
                /\ pc' = AfterGetModule(e)
                /\ IF e # NoError
                   THEN /\ res' = Pending(e)
                        /\ events' = Append(events, "rejected")
                        /\ UNCHANGED contractCache
                   ELSE /\ contractCache' = CachePut(contractCache, cid, m)
                        /\ UNCHANGED << res, events >>
    /\ UNCHANGED << ci, cid, store, fuel, balances, callerInfo, began, last >>
    /\ UNCHANGED otherThanRuntime

\* WasmRuntime.getInstance, then callInfo.inst = inst and setCallInfo
getInstance ==
    /\ pc = "getInstance"
    /\ \E key \in StoreKeys \ DOMAIN callerInfo :
          /\ fuel' = 0
          /\ IF ~inst.instantiates
             THEN /\ res' = Pending(NewValidationError("failed to instantiate module", "", "engine"))
                  /\ events' = Append(events, "NewStore")
                  /\ pc' = "return"
                  /\ UNCHANGED << store, callerInfo >>
             ELSE /\ store' = key
                  /\ callerInfo' = setCallInfo(callerInfo, key, ci)
                  /\ events' = events \o <<"NewStore", "Instantiate", "setCallInfo">>
                  /\ pc' = "call"
                  /\ UNCHANGED res
    /\ UNCHANGED << ci, cid, inst, balances, contractCache, began, last >>
    /\ UNCHANGED otherThanRuntime

----------------------------------------------------------------------------
(* EphemeralInstance.Execute: a second way into ContractInstance.call *)

\* the modules a caller hands to NewEphemeralInstance already instantiated:
\* those the runtime compiles and the linker instantiates
Instantiable ==
    {id \in ContractIDs : compileModule(ContractBytes(id)) = NoError
                             /\ ContractBytes(id).instantiates}

\* Execute: SetFuel(callInfo.Fuel) on the instance's store, then call
Execute(c) ==
    /\ pc = "idle"
    /\ State_GetAccountContract(c.contract) \in Instantiable
    /\ \E key \in StoreKeys \ DOMAIN callerInfo :
          /\ store' = key
          /\ ci' = [c EXCEPT !.via = "Execute"]
          /\ cid' = State_GetAccountContract(c.contract)
          /\ inst' = ContractBytes(State_GetAccountContract(c.contract))
          /\ fuel' = c.fuel
          /\ events' = <<"SetFuel">>
          /\ began' = [balances |-> balances, entryFuel |-> -1]
          /\ last' = NoFuelOp
          /\ res' = Pending(NoError)
          /\ pc' = "call"
    /\ UNCHANGED << balances, contractCache, callerInfo >>
    /\ UNCHANGED otherThanRuntime

----------------------------------------------------------------------------
(* ContractInstance.call *)

\* a call that goes on after the transfer failed
AfterTransfer_IgnoreError(e) == "write"

\* where call goes after the transfer of the attached value returned e
AfterTransfer(e) == IF e # NoError THEN "return" ELSE "write"

\* the fuel call gives the store: remaining + callInfo.Fuel
callFuel(remaining, callFuelArg) == (remaining + callFuelArg) % UintMod

\* call, up to writeToMemory: add the fuel, transfer the attached value
callBegin ==
    /\ pc = "call"
    /\ fuel' = callFuel(fuel, ci.fuel)
    /\ IF ci.value > 0
       THEN LET t == TestStateManager_TransferBalance(balances, ci.actor, ci.contract, ci.value)
            IN  /\ balances' = t.bal
                /\ res' = Pending(t.err)
                /\ pc' = AfterTransfer(t.err)
                /\ events' = events \o
                      <<"SetFuel", IF t.err # NoError THEN "TransferBalance:failed"
                                                      ELSE "TransferBalance">>
       ELSE /\ pc' = "write"
            /\ events' = Append(events, "SetFuel")
            /\ UNCHANGED << balances, res >>
    /\ UNCHANGED << ci, cid, inst, store, contractCache, callerInfo, began, last >>
    /\ UNCHANGED otherThanRuntime

\* writeToMemory: look up alloc and memory, run the guest's alloc
writeToMemory ==
    /\ pc = "write"
    /\ IF ~inst.exportsAlloc
       THEN /\ res' = Pending(PlainError("allocation function alloc not found"))
            /\ pc' = "return"
            /\ UNCHANGED events
       ELSE IF ~(inst.memDeclared /\ inst.memExported)
       THEN /\ res' = Pending(PlainError("memory memory not found"))
            /\ pc' = "return"
            /\ UNCHANGED events
       ELSE /\ events' = Append(events, "alloc")
            /\ \/ /\ pc' = "invoke"
                  /\ UNCHANGED res
               \/ /\ pc' = "return"
                  /\ res' = Pending(PlainError("trap"))
    /\ UNCHANGED << ci, cid, inst, store, fuel, balances, contractCache, callerInfo,
                    began, last >>
    /\ UNCHANGED otherThanRuntime

\* call after writeToMemory: GetFunc(FunctionName), then function.Call
invoke ==
    /\ pc = "invoke"
    /\ IF ci.fn \notin inst.entries
       THEN /\ res' = Pending(PlainError("function does not exist"))
            /\ pc' = "return"
            /\ UNCHANGED << events, began >>
       ELSE /\ events' = Append(events, "entry")
            /\ began' = [began EXCEPT !.entryFuel = fuel]
            /\ pc' = "guest"
            /\ UNCHANGED res
    /\ UNCHANGED << ci, cid, inst, store, fuel, balances, contractCache, callerInfo, last >>
    /\ UNCHANGED otherThanRuntime

----------------------------------------------------------------------------
(* The fuel helpers of CallInfo, called by the guest through host imports *)

\* a ConsumeFuel without the remaining < fuel check
ConsumeFuel_NoCheck(remaining, n) == [err |-> NoError, fuel |-> (remaining - n) % UintMod]

\* CallInfo.ConsumeFuel: the error and the fuel afterwards
ConsumeFuel(remaining, n) ==
    IF remaining < n
    THEN [err |-> PlainError("out of fuel"), fuel |-> remaining]
    ELSE [err |-> NoError, fuel |-> (remaining - n) % UintMod]

GuestConsumeFuel(n) ==
    /\ pc = "guest"
    /\ LET r == ConsumeFuel(fuel, n)
       IN  /\ fuel' = r.fuel
           /\ last' = [op |-> "ConsumeFuel", n |-> n, before |-> fuel,
                       after |-> r.fuel, err |-> r.err]
    /\ UNCHANGED << pc, ci, cid, inst, store, balances, contractCache, callerInfo,
                    events, res, began >>
    /\ UNCHANGED otherThanRuntime

\* function.Call returns: the guest finished or trapped
GuestReturn ==
    /\ pc = "guest"
    /\ pc' = "return"
    /\ \/ res' = Pending(NoError)
       \/ res' = Pending(PlainError("trap"))
    /\ UNCHANGED << ci, cid, inst, store, fuel, balances, contractCache, callerInfo,
                    events, began, last >>
    /\ UNCHANGED otherThanRuntime

\* CallContract or Execute returns to its caller; the deleteCallInfo that
\* CallContract deferred after setCallInfo runs first
\* (the caller takes res.err with it: the invocation's locals end here)
Return ==
    /\ pc = "return"
    /\ pc' = "idle"
    /\ callerInfo' = IF ci.via = "CallContract" /\ store # 0
                     THEN deleteCallInfo(callerInfo, store)
                     ELSE callerInfo
    /\ ci' = NoCall
    /\ cid' = 0
    /\ inst' = GoodModule
    /\ store' = 0
    /\ fuel' = 0
    /\ events' = <<>>
    /\ res' = Finished(NoError)
    /\ began' = [balances |-> balances, entryFuel |-> -1]
    /\ last' = NoFuelOp
    /\ UNCHANGED << balances, contractCache >>
    /\ UNCHANGED otherThanRuntime

----------------------------------------------------------------------------
(* The simulator state: SimulatorState over its data map *)

\* the separator byte "/" that prependAccountToKey puts after the account
Separator == 47

ContractIDLen == 32

\* a ContractID whose first byte is b, the rest zero
IDBytes(b) == [i \in 1..ContractIDLen |-> IF i = 1 THEN b ELSE 0]

MapPut(d, k, v) == (k :> v) @@ d

MapDelete(d, k) == [x \in (DOMAIN d) \ {k} |-> d[x]]

\* SimulatorState.GetValue: absent keys give (nil, nil)
GetValue(d, key) ==
    IF Len(key) = 0
    THEN [err |-> PlainError("empty key"), found |-> FALSE, value |-> <<>>, storeKey |-> key]
    ELSE IF key \in DOMAIN d
    THEN [err |-> NoError, found |-> TRUE, value |-> d[key], storeKey |-> key]
    ELSE [err |-> NoError, found |-> FALSE, value |-> <<>>, storeKey |-> key]

\* SimulatorState.Insert: the error and the data afterwards
Insert(d, key, value) ==
    IF Len(key) = 0 THEN [err |-> PlainError("empty key"), data |-> d, storeKey |-> key]
    ELSE [err |-> NoError, data |-> MapPut(d, key, value), storeKey |-> key]

\* SimulatorState.Remove
Remove(d, key) ==
    IF Len(key) = 0 THEN [err |-> PlainError("empty key"), data |-> d, storeKey |-> key]
    ELSE [err |-> NoError, data |-> MapDelete(d, key), storeKey |-> key]

----------------------------------------------------------------------------
(* The contract-scoped views *)

\* a view that forwards the guest's key as it is
ContractState_prefixedKey_NoAddress(address, key) == key

\* ContractState: prefixedKey := append(c.address[:], key...)
ContractState_prefixedKey(address, key) == address \o key

\* prependAccountToKey of prefixedState: account, "/", key
prependAccountToKey(account, key) == account \o <<Separator>> \o key

\* ContractState.GetValue
ContractState_GetValue(d, address, key) ==
    IF Len(key) = 0
    THEN [err |-> PlainError("empty key"), found |-> FALSE, value |-> <<>>, storeKey |-> <<>>]
    ELSE GetValue(d, ContractState_prefixedKey(address, key))

\* ContractState.Insert
ContractState_Insert(d, address, key, value) ==
    IF Len(key) = 0 THEN [err |-> PlainError("empty key"), data |-> d, storeKey |-> <<>>]
    ELSE Insert(d, ContractState_prefixedKey(address, key), value)

\* ContractState.Remove
ContractState_Remove(d, address, key) ==
    IF Len(key) = 0 THEN [err |-> PlainError("empty key"), data |-> d, storeKey |-> <<>>]
    ELSE Remove(d, ContractState_prefixedKey(address, key))

\* prefixedState.GetValue over the inner state.Mutable
prefixedState_GetValue(d, address, key) ==
    LET k == prependAccountToKey(address, key)
    IN  IF k \in DOMAIN d
        THEN [err |-> NoError, found |-> TRUE, value |-> d[k], storeKey |-> k]
        ELSE [err |-> NoError, found |-> FALSE, value |-> <<>>, storeKey |-> k]

\* prefixedState.Insert
prefixedState_Insert(d, address, key, value) ==
    [err |-> NoError, data |-> MapPut(d, prependAccountToKey(address, key), value),
     storeKey |-> prependAccountToKey(address, key)]

\* prefixedState.Remove
prefixedState_Remove(d, address, key) ==
    [err |-> NoError, data |-> MapDelete(d, prependAccountToKey(address, key)),
     storeKey |-> prependAccountToKey(address, key)]

\* GetContractState(address).GetValue under the view v
View_GetValue(v, d, address, key) ==
    IF v = "ContractState" THEN ContractState_GetValue(d, address, key)
    ELSE prefixedState_GetValue(d, address, key)

View_Insert(v, d, address, key, value) ==
    IF v = "ContractState" THEN ContractState_Insert(d, address, key, value)
    ELSE prefixedState_Insert(d, address, key, value)

View_Remove(v, d, address, key) ==
    IF v = "ContractState" THEN ContractState_Remove(d, address, key)
    ELSE prefixedState_Remove(d, address, key)

----------------------------------------------------------------------------
(* The account table of the simulator *)

\* copy(dst, src): the first min(len(dst), len(src)) bytes of src over dst
copy(dst, src) == [i \in 1..Len(dst) |-> IF i <= Len(src) THEN src[i] ELSE dst[i]]

\* SimulatorState.SetAccountContract
SetAccountContract(d, account, contractID) == Insert(d, account, contractID)

\* SimulatorState.GetAccountContract: var contractID ContractID is the nil
\* slice, and copy(contractID[:], value) fills it
GetAccountContract(d, account) ==
    LET got == GetValue(d, account)
    IN  IF got.err # NoError THEN [err |-> got.err, id |-> <<>>]
        ELSE IF Len(got.value) # ContractIDLen
        THEN [err |-> PlainError("invalid contract ID length"), id |-> <<>>]
        ELSE [err |-> NoError, id |-> copy(<<>>, got.value)]

----------------------------------------------------------------------------
(* The ledger of the simulator *)

\* the bytes of "balance:"
BalancePrefix == <<98, 97, 108, 97, 110, 99, 101, 58>>

HexDigit(n) == IF n < 10 THEN 48 + n ELSE 87 + n

\* fmt %s of an address: its bytes in hexadecimal
RECURSIVE AddressString(_)
AddressString(bytes) ==
    IF bytes = <<>> THEN <<>>
    ELSE <<HexDigit(Head(bytes) \div 16), HexDigit(Head(bytes) % 16)>>
         \o AddressString(Tail(bytes))

LedgerAddresses == {Addr(1), Addr(2), Addr(3)}

\* the ledger keys of the addresses used, computed once
BalanceKeyOf ==
    [a \in LedgerAddresses \cup {EmptyAddress} |-> BalancePrefix \o AddressString(a)]

\* balanceKey
balanceKey(addr) == BalanceKeyOf[addr]

\* binary.BigEndian.PutUint64, for the values below 2^32 the model reaches
PutUint64(n) ==
    << 0, 0, 0, 0, (n \div 16777216) % 256, (n \div 65536) % 256, (n \div 256) % 256, n % 256 >>

\* binary.BigEndian.Uint64
Uint64(b) == ((b[5] * 256 + b[6]) * 256 + b[7]) * 256 + b[8]

\* SimulatorState.GetBalance
GetBalance(d, addr) ==
    IF balanceKey(addr) \in DOMAIN d THEN Uint64(d[balanceKey(addr)]) ELSE 0

\* the balance TransferBalance writes for the recipient: toBalance + amount in uint64
newToBalance(toBalance, amount) == (toBalance + amount) % UintMod

\* a TransferBalance without the fromBalance < amount check
TransferBalance_NoCheck(d, from, to, amount) ==
    LET debited == IF from # EmptyAddress
                   THEN MapPut(d, balanceKey(from),
                               PutUint64((GetBalance(d, from) - amount) % UintMod))
                   ELSE d
    IN  [err |-> NoError,
         data |-> MapPut(debited, balanceKey(to),
                         PutUint64(newToBalance(GetBalance(debited, to), amount)))]

\* SimulatorState.TransferBalance: the error and the data afterwards
TransferBalance(d, from, to, amount) ==
    LET fromBalance == GetBalance(d, from)
        debited == IF from # EmptyAddress
                   THEN MapPut(d, balanceKey(from), PutUint64(fromBalance - amount))
                   ELSE d
    IN  IF from # EmptyAddress /\ fromBalance < amount
        THEN [err |-> PlainError("insufficient balance"), data |-> d]
        ELSE [err |-> NoError,
              data |-> MapPut(debited, balanceKey(to),
                              PutUint64(newToBalance(GetBalance(debited, to), amount)))]

NoStateOp == [op |-> ""]

StateOp(op, address, key, r) ==
    [op |-> op, address |-> address, key |-> key, storeKey |-> r.storeKey, err |-> r.err,
     found |-> r.found, value |-> r.value, id |-> <<>>]

----------------------------------------------------------------------------
(* Parallel CallContract invocations on one WasmRuntime.  callerInfo is a *)
(* plain Go map: an access to it is an interval with a beginning and an    *)
(* end, and nothing in WasmRuntime orders the accesses of two threads.     *)

Threads == 1..NumThreads

\* toMapKey: the context pointers the live stores can have
ParStoreKeys == 1..NumThreads

\* the CallInfo thread t passes to CallContract
ThreadCall(t) == [contract |-> ContractAddr(1), actor |-> Addr(t), fn |-> "run",
                  fuel |-> 0, value |-> 0, via |-> "CallContract"]

Writing(t) == tpc[t] \in {"setCallInfo:write", "deleteCallInfo:write"}

Accessing(t) == Writing(t) \/ tpc[t] = "getCallInfo:read"

\* racy after thread t begins a write: it overlaps every access in progress
BeginWrite(t) ==
    [u \in Threads |-> \/ racy[u]
                       \/ (u = t /\ \E v \in Threads \ {t} : Accessing(v))
                       \/ (u # t /\ Accessing(u))]

\* racy after thread t begins a read: it overlaps every write in progress
BeginRead(t) ==
    [u \in Threads |-> \/ racy[u]
                       \/ (u = t /\ \E v \in Threads \ {t} : Writing(v))
                       \/ (u # t /\ Writing(u))]

\* getCallInfo on an undisturbed map
getCallInfo(map, t) ==
    IF tstore[t] \notin DOMAIN map THEN "nil"
    ELSE IF map[tstore[t]] = ThreadCall(t) THEN "own" ELSE "other"

\* getInstance of thread t: a new store, at an address no live store has
ParGetInstance(t) ==
    /\ tpc[t] = "idle"
    /\ \E key \in ParStoreKeys \ {tstore[u] : u \in Threads} :
          tstore' = [tstore EXCEPT ![t] = key]
    /\ tpc' = [tpc EXCEPT ![t] = "setCallInfo"]
    /\ UNCHANGED << tgot, racy >>
    /\ UNCHANGED << runtimeVars, simVars, valVars, resVars, conVars, nestVars >>

\* setCallInfo of thread t starts writing the map
ParSetCallInfoBegin(t) ==
    /\ tpc[t] = "setCallInfo"
    /\ tpc' = [tpc EXCEPT ![t] = "setCallInfo:write"]
    /\ racy' = BeginWrite(t)
    /\ UNCHANGED << tstore, tgot >>
    /\ UNCHANGED << runtimeVars, simVars, valVars, resVars, conVars, nestVars >>

\* setCallInfo of thread t is done; a write that raced may be lost
ParSetCallInfoEnd(t) ==
    /\ tpc[t] = "setCallInfo:write"
    /\ tpc' = [tpc EXCEPT ![t] = "call"]
    /\ \/ callerInfo' = setCallInfo(callerInfo, tstore[t], ThreadCall(t))
       \/ racy[t] /\ callerInfo' = callerInfo
    /\ racy' = [racy EXCEPT ![t] = FALSE]
    /\ UNCHANGED << tstore, tgot >>
    /\ UNCHANGED << pc, ci, cid, inst, store, fuel, balances, contractCache,
                    events, res, began, last >>
    /\ UNCHANGED << simVars, valVars, resVars, conVars, nestVars >>

\* a host callback of thread t's guest starts getCallInfo
ParGetCallInfoBegin(t) ==
    /\ tpc[t] = "call"
    /\ tpc' = [tpc EXCEPT ![t] = "getCallInfo:read"]
    /\ racy' = BeginRead(t)
    /\ UNCHANGED << tstore, tgot >>
    /\ UNCHANGED << runtimeVars, simVars, valVars, resVars, conVars, nestVars >>

\* getCallInfo returns; a read that raced with a write returns anything
ParGetCallInfoEnd(t) ==
    /\ tpc[t] = "getCallInfo:read"
    /\ tpc' = [tpc EXCEPT ![t] = "call"]
    /\ \E r \in {"own", "other", "nil"} :
          /\ racy[t] \/ r = getCallInfo(callerInfo, t)
          /\ tgot' = [tgot EXCEPT ![t] = r]
    /\ racy' = [racy EXCEPT ![t] = FALSE]
    /\ UNCHANGED tstore
    /\ UNCHANGED << runtimeVars, simVars, valVars, resVars, conVars, nestVars >>

\* call returned: the deferred deleteCallInfo of thread t starts writing the map
ParDeleteCallInfoBegin(t) ==
    /\ tpc[t] = "call"
    /\ tpc' = [tpc EXCEPT ![t] = "deleteCallInfo:write"]
    /\ racy' = BeginWrite(t)
    /\ UNCHANGED << tstore, tgot >>
    /\ UNCHANGED << runtimeVars, simVars, valVars, resVars, conVars, nestVars >>

\* deleteCallInfo is done and CallContract returns; the store is dropped
ParDeleteCallInfoEnd(t) ==
    /\ tpc[t] = "deleteCallInfo:write"
    /\ tpc' = [tpc EXCEPT ![t] = "idle"]
    /\ \/ callerInfo' = deleteCallInfo(callerInfo, tstore[t])
       \/ racy[t] /\ callerInfo' = callerInfo
    /\ tstore' = [tstore EXCEPT ![t] = 0]
    /\ tgot' = [tgot EXCEPT ![t] = "none"]
    /\ racy' = [racy EXCEPT ![t] = FALSE]
    /\ UNCHANGED << pc, ci, cid, inst, store, fuel, balances, contractCache,
                    events, res, began, last >>
    /\ UNCHANGED << simVars, valVars, resVars, conVars, nestVars >>

\* the Go runtime detects the concurrent map access of thread t and aborts
ParFatal(t) ==
    /\ Accessing(t)
    /\ racy[t]
    /\ tpc' = [u \in Threads |-> "fatal"]
    /\ UNCHANGED << tstore, tgot, racy >>
    /\ UNCHANGED << runtimeVars, simVars, valVars, resVars, conVars, nestVars >>

ParIdle ==
    /\ tpc = [t \in Threads |-> "idle"]
    /\ tstore = [t \in Threads |-> 0]
    /\ tgot = [t \in Threads |-> "none"]
    /\ racy = [t \in Threads |-> FALSE]

\* no result yet
NotYet == [type |-> "pending", rule |-> "", msg |-> "", cause |-> ""]

NotValidated == [module |-> NotYet, limits |-> NotYet, runtime |-> NotYet]

ValIdle ==
    /\ vcfg = DefaultValidator
    /\ vmod = GoodModule
    /\ vres = NotValidated

----------------------------------------------------------------------------
(* Resources: core.BaseResource and its encoding *)

\* core.ResourceID{b}: first byte b, the rest zero
ResourceID(b) == [i \in 1..32 |-> IF i = 1 THEN b ELSE 0]

\* a codec.Address whose first byte is b and whose last byte is l
AddrTail(b, l) == [Addr(b) EXCEPT ![AddressLen] = l]

\* the abilities, as the bytes of their strings
Key == << 107, 101, 121 >>

Store == << 115, 116, 111, 114, 101 >>

Drop == << 100, 114, 111, 112 >>

ResourceType(name, abilities) == [Name |-> name, Abilities |-> abilities]

NewBaseResource(id, typ, owner, bytes) ==
    [id |-> id, typ |-> typ, ownerAddr |-> owner, data |-> bytes, moved |-> FALSE]

MarkMoved(r) == [r EXCEPT !.moved = TRUE]

\* &core.BaseResource{}
ZeroResource == NewBaseResource(ResourceID(0), ResourceType(<<>>, <<>>), EmptyAddress, <<>>)

ErrInvalidResourceData == PlainError("invalid resource data")

\* make([]byte, n)
make(n) == [i \in 1..n |-> 0]

\* copy(dst[offset:], src): as many bytes as both sides hold; d and s are the
\* two slices, each evaluated once
copyBytes(dst, offset, src) ==
    CHOOSE out \in { [i \in 1..Len(d) |->
                        IF i > offset /\ i <= offset + Len(s) THEN s[i - offset] ELSE d[i]]
                     : d \in {dst}, s \in {src} } : TRUE

\* binary.BigEndian.PutUint32
PutUint32(n) ==
    << (n \div 16777216) % 256, (n \div 65536) % 256, (n \div 256) % 256, n % 256 >>

\* binary.BigEndian.Uint32(b[offset:])
Uint32(b, offset) ==
    ((b[offset + 1] * 256 + b[offset + 2]) * 256 + b[offset + 3]) * 256 + b[offset + 4]

\* an ability cut or zero-padded to eight bytes
abilityBytes(ability) ==
    IF Len(ability) > 8 THEN SubSeq(ability, 1, 8) ELSE copyBytes(make(8), 0, ability)

\* bytes.TrimRight(b, "\x00")
RECURSIVE TrimRight(_)
TrimRight(b) ==
    IF Len(b) > 0 /\ b[Len(b)] = 0 THEN TrimRight(SubSeq(b, 1, Len(b) - 1)) ELSE b

\* BaseResource.Marshal: the writes on the zeroed buffer, in the code's order;
\* r is the receiver, evaluated once
Marshal(resource) ==
    CHOOSE bytes \in {
        LET nameBytes == r.typ.Name
            abilities == r.typ.Abilities
            totalSize == 32 + 4 + Len(nameBytes) + 4 + Len(abilities) * 8
                            + 32 + 4 + Len(r.data) + 1
            result    == make(totalSize)
            withID    == copyBytes(result, 0, r.id)
            nameAt    == 32
            withNLen  == copyBytes(withID, nameAt, PutUint32(Len(nameBytes)))
            withName  == copyBytes(withNLen, nameAt + 4, nameBytes)
            abAt      == nameAt + 4 + Len(nameBytes)
            withALen  == copyBytes(withName, abAt, PutUint32(Len(abilities)))
            withAbs   == CHOOSE out \in { [i \in 1..totalSize |->
                            IF i > abAt + 4 /\ i <= abAt + 4 + 8 * Len(abilities)
                            THEN abilityBytes(abilities[((i - abAt - 5) \div 8) + 1])
                                             [((i - abAt - 5) % 8) + 1]
                            ELSE w[i]] : w \in {withALen} } : TRUE
            ownerAt   == abAt + 4 + 8 * Len(abilities)
            withOwner == copyBytes(withAbs, ownerAt, r.ownerAddr)
            dataAt    == ownerAt + 32
            withDLen  == copyBytes(withOwner, dataAt, PutUint32(Len(r.data)))
            withData  == copyBytes(withDLen, dataAt + 4, r.data)
            movedAt   == dataAt + 4 + Len(r.data)
        IN  IF r.moved THEN [withData EXCEPT ![movedAt + 1] = 1] ELSE withData
        : r \in {resource} } : TRUE

\* BaseResource.Unmarshal on receiver r: the error and the receiver as left
Unmarshal(r, bytes) ==
    LET failed(x) == [err |-> ErrInvalidResourceData, r |-> x]
        size      == Len(bytes)
    IN  IF size < 73 THEN failed(r)
        ELSE
        LET r1      == [r EXCEPT !.id = SubSeq(bytes, 1, 32)]
            nameLen == Uint32(bytes, 32)
            nameAt  == 36
        IN  IF nameAt + nameLen > size THEN failed(r1)
            ELSE
            LET r2   == [r1 EXCEPT !.typ.Name = SubSeq(bytes, nameAt + 1, nameAt + nameLen)]
                abAt == nameAt + nameLen
            IN  IF abAt + 4 > size THEN failed(r2)
                ELSE
                LET abilitiesLen == Uint32(bytes, abAt)
                    first   == abAt + 4
                    r3      == [r2 EXCEPT !.typ.Abilities =
                                  [i \in 1..abilitiesLen |->
                                     IF first + 8 * i <= size
                                     THEN TrimRight(SubSeq(bytes, first + 8 * (i - 1) + 1,
                                                           first + 8 * i))
                                     ELSE <<>>]]
                    ownerAt == first + 8 * abilitiesLen
                IN  IF ownerAt + 32 > size THEN failed(r3)
                    ELSE
                    LET r4     == [r3 EXCEPT !.ownerAddr =
                                     copyBytes(r3.ownerAddr, 0,
                                               SubSeq(bytes, ownerAt + 1, ownerAt + 32))]
                        lenAt  == ownerAt + 32
                    IN  IF lenAt + 4 > size THEN failed(r4)
                        ELSE
                        LET dataLen == Uint32(bytes, lenAt)
                            dataAt  == lenAt + 4
                        IN  IF dataAt + dataLen > size - 1 THEN failed(r4)
                            ELSE [err |-> NoError,
                                  r   |-> [r4 EXCEPT
                                     !.data  = SubSeq(bytes, dataAt + 1, dataAt + dataLen),
                                     !.moved = (bytes[dataAt + dataLen + 1] = 1)]]

----------------------------------------------------------------------------
(* Resources: TypeSystem, resourceManager and ResourceContract.  One caller *)
(* at a time: the manager's second look under its write lock sees what the  *)
(* first one saw.                                                           *)

ErrTypeNotRegistered == PlainError("resource type not registered")

ErrInvalidTransfer == PlainError("invalid resource transfer")

ErrResourceAlreadyExists == PlainError("resource already exists")

ErrResourceNotFound == PlainError("resource not found")

ErrInvalidResourceOperation == PlainError("invalid resource operation")

ErrTypeAlreadyRegistered == PlainError("resource type already registered")

ErrInvalidFieldType == PlainError("invalid field type")

\* "Test3", the type name validateFieldTypes rejects
Test3 == << 84, 101, 115, 116, 51 >>

\* fmt.Errorf(msg + ": %w", err)
Errorf(msg, err) == [type |-> "error", rule |-> "", msg |-> msg, cause |-> err.msg]

\* core.ResourceType{Name: "Balance", Abilities: {Key, Store}}
balanceType == ResourceType(<< 66, 97, 108, 97, 110, 99, 101 >>, << Key, Store >>)

\* TypeSystem.types after RegisterType(balanceType)
types == {balanceType}

abilitiesMatch(a, b) ==
    /\ Len(a) = Len(b)
    /\ \A i \in 1..Len(b) : \E j \in 1..Len(a) : a[j] = b[i]

\* TypeSystem.ValidateType
ValidateType(typ) ==
    IF \A t \in types : t.Name # typ.Name THEN ErrTypeNotRegistered
    ELSE LET registeredType == CHOOSE t \in types : t.Name = typ.Name
         IN  IF ~abilitiesMatch(registeredType.Abilities, typ.Abilities)
             THEN PlainError("abilities do not match registered type")
             ELSE NoError

\* 'r' followed by the id
resourceKey(id) == [i \in 1..33 |-> IF i = 1 THEN 114 ELSE id[i - 1]]

getResourceNoLock(db, id) ==
    IF resourceKey(id) \notin DOMAIN db
    THEN [err |-> ErrResourceNotFound, r |-> ZeroResource]
    ELSE LET u == Unmarshal(ZeroResource, db[resourceKey(id)])
         IN  IF u.err # NoError
             THEN [err |-> Errorf("failed to unmarshal resource", u.err), r |-> ZeroResource]
             ELSE u

GetResource(db, id) == getResourceNoLock(db, id)

\* resourceManager.GetOwner: the owner read back from the stored bytes
GetOwner(db, id) ==
    IF resourceKey(id) \notin DOMAIN db
    THEN [err |-> ErrResourceNotFound, owner |-> EmptyAddress]
    ELSE LET u == Unmarshal(ZeroResource, db[resourceKey(id)])
         IN  IF u.err # NoError
             THEN [err |-> Errorf("failed to unmarshal resource", u.err),
                   owner |-> EmptyAddress]
             ELSE [err |-> NoError, owner |-> u.r.ownerAddr]

writeResource(db, resource) == MapPut(db, resourceKey(resource.id), Marshal(resource))

deleteResourceInternal(db, id) == MapDelete(db, resourceKey(id))

transferResourceInternal(db, id, to) ==
    LET got == getResourceNoLock(db, id)
    IN  IF got.err # NoError THEN [err |-> got.err, db |-> db]
        ELSE [err |-> NoError,
              db  |-> writeResource(db,
                         MarkMoved(NewBaseResource(id, got.r.typ, to, got.r.data)))]

updateResourceInternal(db, id, newData) ==
    LET got == getResourceNoLock(db, id)
    IN  IF got.err # NoError THEN [err |-> got.err, db |-> db]
        ELSE [err |-> NoError,
              db  |-> writeResource(db,
                         NewBaseResource(id, got.r.typ, got.r.ownerAddr, newData))]

\* resourceManager.CreateResource; id is what generateResourceID returned
resourceManager_CreateResource(db, id, typ, owner, bytes) ==
    IF ValidateType(typ) # NoError
    THEN [err |-> Errorf("invalid resource type", ValidateType(typ)), db |-> db]
    ELSE IF getResourceNoLock(db, id).err = NoError
    THEN [err |-> ErrResourceAlreadyExists, db |-> db]
    ELSE [err |-> NoError, db |-> writeResource(db, NewBaseResource(id, typ, owner, bytes))]

resourceManager_DeleteResource(db, id) ==
    [err |-> NoError, db |-> deleteResourceInternal(db, id)]

resourceManager_TransferResource(db, id, from, to) ==
    LET owner == GetOwner(db, id)
    IN  IF owner.err # NoError THEN [err |-> owner.err, db |-> db]
        ELSE IF owner.owner # from THEN [err |-> ErrInvalidTransfer, db |-> db]
        ELSE transferResourceInternal(db, id, to)

resourceManager_UpdateResource(db, id, bytes) ==
    LET got == GetResource(db, id)
    IN  IF got.err # NoError THEN [err |-> got.err, db |-> db]
        ELSE IF ValidateType(got.r.typ) # NoError
        THEN [err |-> Errorf("invalid resource type", ValidateType(got.r.typ)), db |-> db]
        ELSE updateResourceInternal(db, id, bytes)

\* ResourceContract with owner rcOwner
ResourceContract_CreateResource(rcOwner, db, id, typ, owner, bytes) ==
    resourceManager_CreateResource(db, id, typ, owner, bytes)

ResourceContract_TransferResource(rcOwner, db, id, to) ==
    LET owner == GetOwner(db, id)
    IN  IF owner.err # NoError THEN [err |-> owner.err, db |-> db]
        ELSE IF owner.owner # rcOwner THEN [err |-> ErrInvalidResourceOperation, db |-> db]
        ELSE resourceManager_TransferResource(db, id, owner.owner, to)

ResourceContract_UpdateResource(rcOwner, db, id, bytes) ==
    LET owner == GetOwner(db, id)
    IN  IF owner.err # NoError THEN [err |-> owner.err, db |-> db]
        ELSE IF owner.owner # rcOwner THEN [err |-> ErrInvalidResourceOperation, db |-> db]
        ELSE resourceManager_UpdateResource(db, id, bytes)

ResourceContract_DeleteResource(rcOwner, db, id) ==
    LET owner == GetOwner(db, id)
    IN  IF owner.err # NoError THEN [err |-> owner.err, db |-> db]
        ELSE IF owner.owner # rcOwner THEN [err |-> ErrInvalidResourceOperation, db |-> db]
        ELSE resourceManager_DeleteResource(db, id)

\* nothing unmarshalled yet
NotUnmarshaled == [err |-> NotYet, r |-> ZeroResource, bytes |-> <<>>]

\* no ResourceContract operation yet
NoResourceOp ==
    [op |-> "none", id |-> ResourceID(0), caller |-> EmptyAddress,
     to |-> EmptyAddress, err |-> NoError, before |-> <<>>,
     ownerBefore |-> EmptyAddress]

ResIdle ==
    /\ rin = ZeroResource
    /\ rbuf = <<>>
    /\ rout = NotUnmarshaled
    /\ rdb = <<>>
    /\ rowner = <<>>
    /\ rlast = NoResourceOp

----------------------------------------------------------------------------
(* Goroutines calling into shared objects.  Every method is a sequence of   *)
(* critical sections on a sync.RWMutex: the goroutine asks for the lock,    *)
(* holds it while it touches the object, and releases it.                   *)

Goroutines == 1..NumGoroutines

Mutexes == {"SimulatorState", "resourceManager", "TypeSystem"}

\* a sync.RWMutex nobody holds or waits for
Unlocked == [writer |-> 0, readers |-> {}, waiting |-> {}]

\* a goroutine that is in no call and has made none
IdleGoroutine ==
    [pc |-> "idle", op |-> "", args |-> <<>>, stage |-> 0, local |-> <<>>,
     ret |-> <<>>, err |-> NoError, wrote |-> [found |-> FALSE, value |-> <<>>],
     calls |-> 0, done |-> <<>>]

ConIdle ==
    /\ gs = [g \in Goroutines |-> IdleGoroutine]
    /\ mu = [m \in Mutexes |-> Unlocked]

\* the critical sections of a call, in the order the method takes them; mode is
\* R for RLock, W for Lock, N for a step the method makes holding no lock
Section(step, m, mode) == [step |-> step, m |-> m, mode |-> mode]

Script(op, args) ==
    CASE op = "Insert"     -> << Section("insert", "SimulatorState", "W") >>
      [] op = "Remove"     -> << Section("remove", "SimulatorState", "W") >>
      [] op = "GetValue"   -> << Section("get", "SimulatorState", "R") >>
      [] op = "GetBalance" -> << Section("balance", "SimulatorState", "R") >>
      [] op = "TransferBalance" ->
            (IF args.from # EmptyAddress
             THEN << Section("readFrom", "SimulatorState", "R"),
                     Section("writeFrom", "SimulatorState", "W") >>
             ELSE <<>>)
            \o << Section("readTo", "SimulatorState", "R"),
                  Section("writeTo", "SimulatorState", "W") >>
      [] op = "RCTransferResource" ->
            << Section("rcOwner", "resourceManager", "N"),
               Section("rmOwner", "resourceManager", "N"),
               Section("transfer", "resourceManager", "W") >>
      [] op = "RCUpdateResource" ->
            << Section("rcOwner", "resourceManager", "N"),
               Section("rmGet", "resourceManager", "R"),
               Section("validate", "TypeSystem", "R"),
               Section("update", "resourceManager", "W") >>
      [] op = "RCDeleteResource" ->
            << Section("rcOwner", "resourceManager", "N"),
               Section("delete", "resourceManager", "W") >>
      [] op = "CreateResource" ->
            << Section("validate", "TypeSystem", "R"),
               Section("exists", "resourceManager", "R"),
               Section("create", "resourceManager", "W") >>
      [] op = "TransferResource" ->
            << Section("rmOwner", "resourceManager", "N"),
               Section("transfer", "resourceManager", "W") >>
      [] op = "UpdateResource" ->
            << Section("rmGet", "resourceManager", "R"),
               Section("validate", "TypeSystem", "R"),
               Section("update", "resourceManager", "W") >>
      [] op = "DeleteResource" -> << Section("delete", "resourceManager", "W") >>
      [] op = "GetResource"    -> << Section("rmGet", "resourceManager", "R") >>
      [] op = "RegisterType"   -> << Section("register", "TypeSystem", "W") >>
      [] op = "ValidateType"   -> << Section("validate", "TypeSystem", "R") >>
      [] op = "GetType"        -> << Section("getType", "TypeSystem", "R") >>

\* the critical section goroutine record r is at
Current(r) == Script(r.op, r.args)[r.stage]

\* the goroutine enters the method
Call(r, op, args) ==
    [r EXCEPT !.pc = "lock", !.op = op, !.args = args, !.stage = 1, !.local = <<>>,
              !.ret = <<>>, !.err = NoError, !.calls = @ + 1]

CanCall(g) == gs[g].pc = "idle" /\ gs[g].calls < MaxCalls

\* go s.Insert(ctx, key, value)
GoInsert(g, key, value) ==
    /\ CanCall(g)
    /\ gs' = [gs EXCEPT ![g] = Call(@, "Insert", [key |-> key, value |-> value])]
    /\ UNCHANGED << mu, runtimeVars, simVars, parVars, valVars, resVars, nestVars >>

\* go s.Remove(ctx, key)
GoRemove(g, key) ==
    /\ CanCall(g)
    /\ gs' = [gs EXCEPT ![g] = Call(@, "Remove", [key |-> key])]
    /\ UNCHANGED << mu, runtimeVars, simVars, parVars, valVars, resVars, nestVars >>

\* go s.GetValue(ctx, key)
GoGetValue(g, key) ==
    /\ CanCall(g)
    /\ gs' = [gs EXCEPT ![g] = Call(@, "GetValue", [key |-> key])]
    /\ UNCHANGED << mu, runtimeVars, simVars, parVars, valVars, resVars, nestVars >>

\* go s.GetBalance(ctx, addr)
GoGetBalance(g, addr) ==
    /\ CanCall(g)
    /\ gs' = [gs EXCEPT ![g] = Call(@, "GetBalance", [addr |-> addr])]
    /\ UNCHANGED << mu, runtimeVars, simVars, parVars, valVars, resVars, nestVars >>

\* go s.TransferBalance(ctx, from, to, amount)
GoTransferBalance(g, from, to, amount) ==
    /\ CanCall(g)
    /\ gs' = [gs EXCEPT ![g] =
                 Call(@, "TransferBalance", [from |-> from, to |-> to, amount |-> amount])]
    /\ UNCHANGED << mu, runtimeVars, simVars, parVars, valVars, resVars, nestVars >>

\* the goroutine goes into a step it makes without taking the mutex
NoLock(g) ==
    /\ gs[g].pc = "lock"
    /\ Current(gs[g]).mode = "N"
    /\ gs' = [gs EXCEPT ![g].pc = "locked"]
    /\ UNCHANGED << mu, runtimeVars, simVars, parVars, valVars, resVars, nestVars >>

\* mu.RLock(): waits while a writer holds the mutex or a Lock is waiting for it
RLock(g) ==
    /\ gs[g].pc = "lock"
    /\ Current(gs[g]).mode = "R"
    /\ LET m == Current(gs[g]).m
       IN  /\ mu[m].writer = 0
           /\ mu[m].waiting = {}
           /\ mu' = [mu EXCEPT ![m].readers = @ \cup {g}]
    /\ gs' = [gs EXCEPT ![g].pc = "locked"]
    /\ UNCHANGED << runtimeVars, simVars, parVars, valVars, resVars, nestVars >>

\* mu.Lock() finds the mutex taken: it waits, and holds new readers back
LockWait(g) ==
    /\ gs[g].pc = "lock"
    /\ Current(gs[g]).mode = "W"
    /\ LET m == Current(gs[g]).m
       IN  /\ mu[m].writer # 0 \/ mu[m].readers # {}
           /\ mu' = [mu EXCEPT ![m].waiting = @ \cup {g}]
    /\ gs' = [gs EXCEPT ![g].pc = "waiting"]
    /\ UNCHANGED << runtimeVars, simVars, parVars, valVars, resVars, nestVars >>

\* a Lock that does not wait for the holders of the mutex
Lock_NoWait(g) ==
    /\ gs[g].pc \in {"lock", "waiting"}
    /\ Current(gs[g]).mode = "W"
    /\ LET m == Current(gs[g]).m
       IN  mu' = [mu EXCEPT ![m].writer = g, ![m].waiting = @ \ {g}]
    /\ gs' = [gs EXCEPT ![g].pc = "locked"]
    /\ UNCHANGED << runtimeVars, simVars, parVars, valVars, resVars, nestVars >>

\* mu.Lock() gets the mutex: no writer and no reader holds it
Lock(g) ==
    /\ gs[g].pc \in {"lock", "waiting"}
    /\ Current(gs[g]).mode = "W"
    /\ LET m == Current(gs[g]).m
       IN  /\ mu[m].writer = 0
           /\ mu[m].readers = {}
           /\ mu' = [mu EXCEPT ![m].writer = g, ![m].waiting = @ \ {g}]
    /\ gs' = [gs EXCEPT ![g].pc = "locked"]
    /\ UNCHANGED << runtimeVars, simVars, parVars, valVars, resVars, nestVars >>

\* what the goroutine does to SimulatorState.data while it holds s.mu
SimAccess(g) ==
    /\ gs[g].pc = "locked"
    /\ Current(gs[g]).m = "SimulatorState"
    /\ LET r    == gs[g]
           a    == r.args
           step == Current(r).step
       IN  CASE step = "insert" ->
                  /\ data' = Insert(data, a.key, a.value).data
                  /\ gs' = [gs EXCEPT ![g].pc = "unlock",
                                      ![g].err = Insert(data, a.key, a.value).err,
                                      ![g].wrote = [found |-> TRUE, value |-> a.value]]
             [] step = "remove" ->
                  /\ data' = Remove(data, a.key).data
                  /\ gs' = [gs EXCEPT ![g].pc = "unlock",
                                      ![g].err = Remove(data, a.key).err,
                                      ![g].wrote = [found |-> FALSE, value |-> <<>>]]
             [] step = "get" ->
                  /\ data' = data
                  /\ gs' = [gs EXCEPT ![g].pc = "unlock",
                                      ![g].err = GetValue(data, a.key).err,
                                      ![g].ret = [found |-> GetValue(data, a.key).found,
                                                  value |-> GetValue(data, a.key).value]]
             [] step = "balance" ->
                  /\ data' = data
                  /\ gs' = [gs EXCEPT ![g].pc = "unlock", ![g].ret = GetBalance(data, a.addr)]
             [] step = "readFrom" ->
                  /\ data' = data
                  /\ gs' = [gs EXCEPT ![g].pc = "unlock", ![g].local = GetBalance(data, a.from)]
             [] step = "writeFrom" ->
                  /\ data' = MapPut(data, balanceKey(a.from), PutUint64(r.local - a.amount))
                  /\ gs' = [gs EXCEPT ![g].pc = "unlock"]
             [] step = "readTo" ->
                  /\ data' = data
                  /\ gs' = [gs EXCEPT ![g].pc = "unlock", ![g].local = GetBalance(data, a.to)]
             [] step = "writeTo" ->
                  /\ data' = MapPut(data, balanceKey(a.to),
                                    PutUint64(newToBalance(r.local, a.amount)))
                  /\ gs' = [gs EXCEPT ![g].pc = "unlock"]
    /\ UNCHANGED << view, accountSet, simLast >>
    /\ UNCHANGED << mu, runtimeVars, parVars, valVars, resVars, nestVars >>

\* TypeSystem.RegisterType: the error and ts.types afterwards
RegisterType(ts, typ) ==
    IF \E t \in ts : t.Name = typ.Name
    THEN [err |-> ErrTypeAlreadyRegistered, types |-> ts]
    ELSE IF typ.Name = Test3
    THEN [err |-> ErrInvalidFieldType, types |-> ts]
    ELSE [err |-> NoError, types |-> ts \cup {typ}]

\* the owner a transfer expects: what ResourceContract read, or the caller's from
From(r) == IF r.op = "RCTransferResource" THEN r.local ELSE r.args.from

\* the type ValidateType is called with: the caller's, or the stored resource's
TypeArg(r) == IF r.op \in {"CreateResource", "ValidateType"} THEN r.args.typ ELSE r.local

\* the step's outcome: the error, the locals, and resourceManager.db afterwards
ResStep(r, db) ==
    LET a    == r.args
        step == Current(r).step
        same(e, l) == [err |-> e, local |-> l, db |-> db]
    IN  CASE step = "rcOwner" ->
               LET o == GetOwner(db, a.id)
               IN  IF o.err # NoError THEN same(o.err, r.local)
                   ELSE IF o.owner # a.caller
                   THEN same(ErrInvalidResourceOperation, r.local)
                   ELSE same(NoError, o.owner)
          [] step = "rmOwner" ->
               LET o == GetOwner(db, a.id)
               IN  IF o.err # NoError THEN same(o.err, r.local)
                   ELSE IF o.owner # From(r) THEN same(ErrInvalidTransfer, r.local)
                   ELSE same(NoError, r.local)
          [] step = "transfer" ->
               LET o == GetOwner(db, a.id)
               IN  IF o.err # NoError THEN same(o.err, r.local)
                   ELSE IF o.owner # From(r) THEN same(ErrInvalidTransfer, r.local)
                   ELSE [err   |-> transferResourceInternal(db, a.id, a.to).err,
                         local |-> r.local,
                         db    |-> transferResourceInternal(db, a.id, a.to).db]
          [] step = "rmGet" ->
               LET got == getResourceNoLock(db, a.id)
               IN  same(got.err, IF got.err = NoError THEN got.r.typ ELSE r.local)
          [] step = "validate" ->
               IF ValidateType(TypeArg(r)) # NoError /\ r.op # "ValidateType"
               THEN same(Errorf("invalid resource type", ValidateType(TypeArg(r))), r.local)
               ELSE same(ValidateType(TypeArg(r)), r.local)
          [] step = "update" ->
               IF getResourceNoLock(db, a.id).err # NoError
               THEN same(getResourceNoLock(db, a.id).err, r.local)
               ELSE [err   |-> updateResourceInternal(db, a.id, a.data).err,
                     local |-> r.local,
                     db    |-> updateResourceInternal(db, a.id, a.data).db]
          [] step = "delete" ->
               [err |-> NoError, local |-> r.local, db |-> deleteResourceInternal(db, a.id)]
          [] step = "exists" ->
               IF getResourceNoLock(db, a.id).err = NoError
               THEN same(ErrResourceAlreadyExists, r.local)
               ELSE same(NoError, r.local)
          [] step = "create" ->
               IF getResourceNoLock(db, a.id).err = NoError
               THEN same(ErrResourceAlreadyExists, r.local)
               ELSE [err   |-> NoError,
                     local |-> r.local,
                     db    |-> writeResource(db, NewBaseResource(a.id, a.typ, a.owner,
                                                                 a.data))]
          [] step = "register" -> same(RegisterType(types, a.typ).err, r.local)
          [] step = "getType" ->
               same(IF \E t \in types : t.Name = a.name THEN NoError
                    ELSE ErrTypeNotRegistered, r.local)

\* what the goroutine does to resourceManager.db and to TypeSystem.types in one
\* step of a method, under the lock the method holds there
ResAccess(g) ==
    /\ gs[g].pc = "locked"
    /\ Current(gs[g]).m \in {"resourceManager", "TypeSystem"}
    /\ \E out \in {ResStep(gs[g], rdb)} :
          /\ rdb' = out.db
          /\ gs' = [gs EXCEPT ![g].pc = "unlock", ![g].err = out.err,
                              ![g].local = out.local]
    /\ UNCHANGED << rin, rbuf, rout, rowner, rlast >>
    /\ UNCHANGED << mu, runtimeVars, simVars, parVars, valVars, nestVars >>

\* the call as it goes on after the critical section: the next section, or the return
AfterSection(r) ==
    LET step == Current(r).step
    IN  IF step = "readFrom" /\ r.local < r.args.amount
        THEN [r EXCEPT !.pc = "idle", !.err = PlainError("insufficient balance")]
        ELSE IF Current(r).m # "SimulatorState" /\ r.err # NoError
        THEN [r EXCEPT !.pc = "idle"]
        ELSE IF r.stage < Len(Script(r.op, r.args))
        THEN [r EXCEPT !.pc = "lock", !.stage = @ + 1]
        ELSE [r EXCEPT !.pc = "idle",
                       !.done = IF r.op = "TransferBalance" /\ r.err = NoError
                                THEN Append(@, r.args) ELSE @]

\* a method that goes on without releasing the mutex
Unlock_Keep(g) ==
    /\ gs[g].pc = "unlock"
    /\ gs' = [gs EXCEPT ![g] = AfterSection(@)]
    /\ UNCHANGED << mu, runtimeVars, simVars, parVars, valVars, resVars, nestVars >>

\* mu.Unlock() / mu.RUnlock(), and what follows up to the next lock or the return
Unlock(g) ==
    /\ gs[g].pc = "unlock"
    /\ LET m == Current(gs[g]).m
       IN  mu' = [mu EXCEPT ![m].writer = IF @ = g THEN 0 ELSE @,
                            ![m].readers = @ \ {g}]
    /\ gs' = [gs EXCEPT ![g] = AfterSection(@)]
    /\ UNCHANGED << runtimeVars, simVars, parVars, valVars, resVars, nestVars >>

\* no invocation is suspended in a nested call
NestIdle == frames = <<>>

ExtIdle == ParIdle /\ ValIdle /\ ResIdle /\ ConIdle /\ NestIdle

----------------------------------------------------------------------------
(* The orchestrator's specification *)

RuntimeInit ==
    /\ pc = "idle"
    /\ ci = NoCall
    /\ cid = 0
    /\ inst = GoodModule
    /\ store = 0
    /\ fuel = 0
    /\ balances \in {[a \in Accounts |-> IF a = Actor THEN b ELSE 0] : b \in {0, MaxBalance}}
    /\ contractCache = <<>>
    /\ callerInfo = <<>>
    /\ events = <<>>
    /\ res = Finished(NoError)
    /\ began = [balances |-> balances, entryFuel |-> -1]
    /\ last = NoFuelOp

SimIdle ==
    /\ data = <<>>
    /\ view = "ContractState"
    /\ accountSet = <<>>
    /\ simLast = NoStateOp

Init ==
    /\ RuntimeInit
    /\ SimIdle
    /\ ExtIdle

Next ==
    \/ \E c \in CallInfos : CallContract(c)
    \/ \E c \in CallInfos : Execute(c)
    \/ getModule
    \/ getInstance
    \/ callBegin
    \/ writeToMemory
    \/ invoke
    \/ \E n \in 0..(MaxFuel + 1) : GuestConsumeFuel(n)
    \/ GuestReturn
    \/ Return

Spec == Init /\ [][Next]_vars

----------------------------------------------------------------------------
(* The simulator's key/value store behind a contract-scoped view *)

SimAddresses == {Addr(1), Addr(2)}

GuestKeys == {<<>>, <<1>>, <<Separator, 1>>}

Values == {<<7>>, <<8>>}

SimContractIDs == {IDBytes(1), IDBytes(2)}

\* GetContractState(a).Insert(k, v)
StateInsert(a, k, v) ==
    /\ LET r == View_Insert(view, data, a, k, v)
       IN  /\ data' = r.data
           /\ simLast' = StateOp("Insert", a, k, [r EXCEPT !.data = <<>>] @@
                                                 [found |-> FALSE, value |-> v])
    /\ UNCHANGED << view, accountSet >>
    /\ UNCHANGED otherThanSim

\* GetContractState(a).Remove(k)
StateRemove(a, k) ==
    /\ LET r == View_Remove(view, data, a, k)
       IN  /\ data' = r.data
           /\ simLast' = StateOp("Remove", a, k, [r EXCEPT !.data = <<>>] @@
                                                 [found |-> FALSE, value |-> <<>>])
    /\ UNCHANGED << view, accountSet >>
    /\ UNCHANGED otherThanSim

\* GetContractState(a).GetValue(k)
StateGetValue(a, k) ==
    /\ simLast' = StateOp("GetValue", a, k, View_GetValue(view, data, a, k))
    /\ UNCHANGED << data, view, accountSet >>
    /\ UNCHANGED otherThanSim

\* SimulatorState.SetAccountContract(a, id)
SimSetAccountContract(a, id) ==
    /\ view = "ContractState"
    /\ LET r == SetAccountContract(data, a, id)
       IN  /\ data' = r.data
           /\ accountSet' = IF r.err = NoError THEN MapPut(accountSet, a, id) ELSE accountSet
           /\ simLast' = [op |-> "SetAccountContract", address |-> a, key |-> <<>>,
                          storeKey |-> r.storeKey, err |-> r.err, found |-> FALSE,
                          value |-> <<>>, id |-> id]
    /\ UNCHANGED view
    /\ UNCHANGED otherThanSim

\* SimulatorState.NewAccountWithContract(id): a random address, then SetAccountContract
SimNewAccountWithContract(id) ==
    /\ view = "ContractState"
    /\ \E a \in SimAddresses :
          LET r == SetAccountContract(data, a, id)
          IN  /\ data' = r.data
              /\ accountSet' = IF r.err = NoError THEN MapPut(accountSet, a, id)
                               ELSE accountSet
              /\ simLast' = [op |-> "NewAccountWithContract", address |-> a, key |-> <<>>,
                             storeKey |-> r.storeKey, err |-> r.err, found |-> FALSE,
                             value |-> <<>>, id |-> id]
    /\ UNCHANGED view
    /\ UNCHANGED otherThanSim

\* SimulatorState.GetAccountContract(a)
SimGetAccountContract(a) ==
    /\ view = "ContractState"
    /\ LET r == GetAccountContract(data, a)
       IN  simLast' = [op |-> "GetAccountContract", address |-> a, key |-> <<>>,
                       storeKey |-> a, err |-> r.err, found |-> FALSE,
                       value |-> <<>>, id |-> r.id]
    /\ UNCHANGED << data, view, accountSet >>
    /\ UNCHANGED otherThanSim

RuntimeIdle ==
    /\ pc = "idle"
    /\ ci = NoCall
    /\ cid = 0
    /\ inst = GoodModule
    /\ store = 0
    /\ fuel = 0
    /\ balances = [a \in Accounts |-> 0]
    /\ contractCache = <<>>
    /\ callerInfo = <<>>
    /\ events = <<>>
    /\ res = Finished(NoError)
    /\ began = [balances |-> balances, entryFuel |-> -1]
    /\ last = NoFuelOp

InitSim ==
    /\ RuntimeIdle
    /\ data = <<>>
    /\ view \in {"ContractState", "prefixedState"}
    /\ accountSet = <<>>
    /\ simLast = NoStateOp
    /\ ExtIdle

NextSim ==
    \/ \E a \in SimAddresses, k \in GuestKeys, v \in Values : StateInsert(a, k, v)
    \/ \E a \in SimAddresses, k \in GuestKeys : StateRemove(a, k)
    \/ \E a \in SimAddresses, k \in GuestKeys : StateGetValue(a, k)
    \/ \E a \in SimAddresses, id \in SimContractIDs : SimSetAccountContract(a, id)
    \/ \E id \in SimContractIDs : SimNewAccountWithContract(id)
    \/ \E a \in SimAddresses : SimGetAccountContract(a)

SpecSim == InitSim /\ [][NextSim]_vars

----------------------------------------------------------------------------
(* The simulator's ledger *)

Amounts == {1, 2, MaxUint}

Balances(d) == [a \in LedgerAddresses |-> GetBalance(d, a)]

\* SimulatorState.TransferBalance(from, to, amount)
SimTransferBalance(from, to, amount) ==
    /\ LET r == TransferBalance(data, from, to, amount)
       IN  /\ data' = r.data
           /\ simLast' = [op |-> "TransferBalance", from |-> from, to |-> to,
                          amount |-> amount, err |-> r.err,
                          before |-> Balances(data), after |-> Balances(r.data)]
    /\ UNCHANGED << view, accountSet >>
    /\ UNCHANGED otherThanSim

\* SimulatorState.GetBalance(a)
SimGetBalance(a) ==
    /\ simLast' = [op |-> "GetBalance", from |-> a, to |-> a, amount |-> GetBalance(data, a),
                   err |-> NoError, before |-> Balances(data), after |-> Balances(data)]
    /\ UNCHANGED << data, view, accountSet >>
    /\ UNCHANGED otherThanSim

InitBalance ==
    /\ RuntimeIdle
    /\ SimIdle
    /\ ExtIdle

NextBalance ==
    \/ \E from \in LedgerAddresses \cup {EmptyAddress}, to \in LedgerAddresses,
          amount \in Amounts : SimTransferBalance(from, to, amount)
    \/ \E a \in LedgerAddresses : SimGetBalance(a)

SpecBalance == InitBalance /\ [][NextBalance]_vars

----------------------------------------------------------------------------
(* Parallel invocations: threads of CallContract on one runtime *)

InitPar ==
    /\ RuntimeIdle
    /\ SimIdle
    /\ ParIdle
    /\ ValIdle
    /\ ResIdle
    /\ ConIdle
    /\ NestIdle

NextPar ==
    \/ \E t \in Threads : ParGetInstance(t)
    \/ \E t \in Threads : ParSetCallInfoBegin(t)
    \/ \E t \in Threads : ParSetCallInfoEnd(t)
    \/ \E t \in Threads : ParGetCallInfoBegin(t)
    \/ \E t \in Threads : ParGetCallInfoEnd(t)
    \/ \E t \in Threads : ParDeleteCallInfoBegin(t)
    \/ \E t \in Threads : ParDeleteCallInfoEnd(t)
    \/ \E t \in Threads : ParFatal(t)

SpecPar == InitPar /\ [][NextPar]_vars

----------------------------------------------------------------------------
(* Module validation: one module handed to a validator and to the runtime *)

\* ways a module can differ from GoodModule, around each limit
Deviations ==
    { [parses |-> TRUE],
      [size |-> MaxContractSize + 1],
      [parses |-> FALSE],
      [nExports |-> MaxExports + 1],
      [nImports |-> MaxImports + 1],
      [nExports |-> MaxFunctions, nFuncs |-> MaxFunctions],
      [nExports |-> MaxFunctions + 1, nFuncs |-> MaxFunctions + 1],
      [nGlobals |-> MaxGlobals, nFuncs |-> 99],
      [nGlobals |-> MaxGlobals + 1, nFuncs |-> 98],
      [memMin |-> MaxMemoryPages, memMax |-> MaxMemoryPages],
      [memMin |-> MaxMemoryPages + 1, memMax |-> MaxMemoryPages + 1],
      [memMax |-> MaxMemoryPages + 1],
      [memHasMax |-> FALSE],
      [memExported |-> FALSE, memMin |-> MaxMemoryPages + 1, memMax |-> MaxMemoryPages + 1],
      [memExported |-> FALSE, memHasMax |-> FALSE],
      [memDeclared |-> FALSE, memExported |-> FALSE],
      [tblExported |-> TRUE, tblMin |-> MaxTableSize, tblHasMax |-> TRUE,
       tblMax |-> MaxTableSize],
      [tblExported |-> TRUE, tblMin |-> MaxTableSize + 1, tblHasMax |-> FALSE],
      [tblExported |-> TRUE, tblHasMax |-> TRUE, tblMax |-> MaxTableSize + 1],
      [expKinds |-> {"i32", "f64"}],
      [impKinds |-> {"i32", "f32"}],
      [usesGrow |-> TRUE] }

\* the modules validated: GoodModule with up to two deviations
Modules == {d1 @@ d2 @@ GoodModule : d1 \in Deviations, d2 \in Deviations}

\* a RuleTypeFloatingPoint rule without allow list
NoFloatRule ==
    [type |-> "floating_point", name |-> "no-float", allow |-> {}, deny |-> {},
     validator |-> "nil", maxPages |-> 0]

\* the custom rules a validator is configured with, in registration order
CustomRuleLists ==
    { <<>>,
      <<RestrictedInstructionsRule>>,
      <<StrictFloatRule>>,
      <<NoFloatRule>>,
      <<CustomMemoryLimitsRule(CustomMaxPages)>>,
      <<RejectingRule("custom-a")>>,
      <<RejectingRule("custom-a"), RejectingRule("custom-b")>>,
      <<RejectingRule("custom-b"), RejectingRule("custom-a")>> }

Validators ==
    {Validator(d, c) : d \in {defaultSecurityRules, <<>>}, c \in CustomRuleLists}

\* DefaultValidator.ValidateModule(bytes, engine)
DoValidateModule ==
    /\ vres.module = NotYet
    /\ vres' = [vres EXCEPT !.module = ValidateModuleWith(vcfg, vmod)]
    /\ UNCHANGED << vcfg, vmod >>
    /\ UNCHANGED << runtimeVars, simVars, parVars, resVars, conVars, nestVars >>

\* DefaultValidator.ValidateResourceLimits(mod, limits) on the parsed module
DoValidateResourceLimits ==
    /\ vres.limits = NotYet
    /\ vmod.parses
    /\ vres' = [vres EXCEPT !.limits = ValidateResourceLimits(vmod)]
    /\ UNCHANGED << vcfg, vmod >>
    /\ UNCHANGED << runtimeVars, simVars, parVars, resVars, conVars, nestVars >>

\* WasmRuntime.getModule on a cache miss, up to wasmtime.NewModule
DoGetModule ==
    /\ vres.runtime = NotYet
    /\ vres' = [vres EXCEPT !.runtime = compileModule(vmod)]
    /\ UNCHANGED << vcfg, vmod >>
    /\ UNCHANGED << runtimeVars, simVars, parVars, resVars, conVars, nestVars >>

InitVal ==
    /\ RuntimeIdle
    /\ SimIdle
    /\ ParIdle
    /\ vcfg \in Validators
    /\ vmod \in Modules
    /\ vres = NotValidated
    /\ ResIdle
    /\ ConIdle
    /\ NestIdle

NextVal ==
    \/ DoValidateModule
    \/ DoValidateResourceLimits
    \/ DoGetModule

SpecVal == InitVal /\ [][NextVal]_vars

----------------------------------------------------------------------------
(* The encoding of resources: Marshal, then Unmarshal into a fresh receiver *)

\* []byte of length n
DataOfLen(n) == [i \in 1..n |-> i + 2]

ResourceIDs == {ResourceID(1), [i \in 1..32 |-> 255]}

TypeNames == {<<>>, << 84, 101, 115, 116 >>}

AbilityLists == {<<>>, << Key, Store >>, << Drop >>}

\* codec.Address{2}, and addresses that use all 33 bytes
OwnerAddresses == {Addr(2), AddrTail(2, 1), [i \in 1..AddressLen |-> 255]}

BaseResources ==
    {[id |-> id, typ |-> ResourceType(name, abilities), ownerAddr |-> owner,
      data |-> DataOfLen(n), moved |-> moved] :
        id \in ResourceIDs, name \in TypeNames, abilities \in AbilityLists,
        owner \in OwnerAddresses, n \in 0..MaxDataLen, moved \in BOOLEAN}

\* resource.Marshal()
DoMarshal ==
    /\ rbuf = <<>>
    /\ rbuf' = Marshal(rin)
    /\ UNCHANGED << rin, rout, rdb, rowner, rlast >>
    /\ UNCHANGED << runtimeVars, simVars, parVars, valVars, conVars, nestVars >>

\* newResource := &BaseResource{}; newResource.Unmarshal(marshaled)
DoUnmarshal ==
    /\ rbuf # <<>>
    /\ rout = NotUnmarshaled
    /\ LET u == Unmarshal(ZeroResource, rbuf)
       IN  rout' = [err |-> u.err, r |-> u.r, bytes |-> rbuf]
    /\ UNCHANGED << rin, rbuf, rdb, rowner, rlast >>
    /\ UNCHANGED << runtimeVars, simVars, parVars, valVars, conVars, nestVars >>

\* resource.Unmarshal of bytes cut short
DoUnmarshalShort ==
    /\ rbuf # <<>>
    /\ rout = NotUnmarshaled
    /\ \E n \in {0, 3, 72, Len(rbuf) - 1} :
          LET short == SubSeq(rbuf, 1, n)
              u     == Unmarshal(ZeroResource, short)
          IN  rout' = [err |-> u.err, r |-> u.r, bytes |-> short]
    /\ UNCHANGED << rin, rbuf, rdb, rowner, rlast >>
    /\ UNCHANGED << runtimeVars, simVars, parVars, valVars, conVars, nestVars >>

InitMarshal ==
    /\ RuntimeIdle
    /\ SimIdle
    /\ ParIdle
    /\ ValIdle
    /\ rin \in BaseResources
    /\ rbuf = <<>>
    /\ rout = NotUnmarshaled
    /\ rdb = <<>>
    /\ rowner = <<>>
    /\ rlast = NoResourceOp
    /\ ConIdle
    /\ NestIdle

NextMarshal ==
    \/ DoMarshal
    \/ DoUnmarshal
    \/ DoUnmarshalShort

SpecMarshal == InitMarshal /\ [][NextMarshal]_vars

----------------------------------------------------------------------------
(* Resource contracts of several owners on one resourceManager *)

\* codec.Address{1} and codec.Address{2}, and an address that uses all 33 bytes
ContractOwners == {Addr(1), Addr(2), AddrTail(1, 1)}

\* what generateResourceID can return: every call hashes the clock, and the
\* manager's existence check is there for a repeated id
GeneratedIDs == {ResourceID(1)}

\* the types handed to CreateResource: the registered one and an unknown one
CreateTypes == {balanceType, ResourceType(<< 84, 101, 115, 116 >>, << Key, Store >>)}

\* the stored bytes of resource id, << >> when there is none
Stored(db, id) == IF resourceKey(id) \in DOMAIN db THEN db[resourceKey(id)] ELSE <<>>

\* the owner resource id was created with or last transferred to
CurrentOwner(id) == IF id \in DOMAIN rowner THEN rowner[id] ELSE EmptyAddress

ResourceOp(op, id, caller, to, out) ==
    [op |-> op, id |-> id, caller |-> caller, to |-> to, err |-> out.err,
     before |-> Stored(rdb, id), ownerBefore |-> CurrentOwner(id)]

\* contract.CreateResource(typ, owner, data)
RCCreateResource ==
    \E c \in ContractOwners, id \in GeneratedIDs, typ \in CreateTypes,
       owner \in ContractOwners, n \in 0..MaxDataLen :
        \E out \in {ResourceContract_CreateResource(c, rdb, id, typ, owner, DataOfLen(n))} :
            /\ rdb' = out.db
            /\ rowner' = IF out.err = NoError THEN MapPut(rowner, id, owner) ELSE rowner
            /\ rlast' = ResourceOp("create", id, c, owner, out)
            /\ UNCHANGED << rin, rbuf, rout >>
            /\ UNCHANGED << runtimeVars, simVars, parVars, valVars, conVars, nestVars >>

\* contract.TransferResource(id, to)
RCTransferResource ==
    \E c \in ContractOwners, id \in GeneratedIDs, to \in ContractOwners :
        \E out \in {ResourceContract_TransferResource(c, rdb, id, to)} :
            /\ rdb' = out.db
            /\ rowner' = IF out.err = NoError THEN MapPut(rowner, id, to) ELSE rowner
            /\ rlast' = ResourceOp("transfer", id, c, to, out)
            /\ UNCHANGED << rin, rbuf, rout >>
            /\ UNCHANGED << runtimeVars, simVars, parVars, valVars, conVars, nestVars >>

\* contract.UpdateResource(id, data)
RCUpdateResource ==
    \E c \in ContractOwners, id \in GeneratedIDs, n \in 0..MaxDataLen :
        \E out \in {ResourceContract_UpdateResource(c, rdb, id, DataOfLen(n))} :
            /\ rdb' = out.db
            /\ rlast' = ResourceOp("update", id, c, EmptyAddress, out)
            /\ UNCHANGED << rin, rbuf, rout, rowner >>
            /\ UNCHANGED << runtimeVars, simVars, parVars, valVars, conVars, nestVars >>

\* contract.DeleteResource(id)
RCDeleteResource ==
    \E c \in ContractOwners, id \in GeneratedIDs :
        \E out \in {ResourceContract_DeleteResource(c, rdb, id)} :
            /\ rdb' = out.db
            /\ rowner' = IF out.err = NoError THEN MapDelete(rowner, id) ELSE rowner
            /\ rlast' = ResourceOp("delete", id, c, EmptyAddress, out)
            /\ UNCHANGED << rin, rbuf, rout >>
            /\ UNCHANGED << runtimeVars, simVars, parVars, valVars, conVars, nestVars >>

InitRC ==
    /\ RuntimeIdle
    /\ SimIdle
    /\ ParIdle
    /\ ValIdle
    /\ ResIdle
    /\ ConIdle
    /\ NestIdle

NextRC ==
    \/ RCCreateResource
    \/ RCTransferResource
    \/ RCUpdateResource
    \/ RCDeleteResource

SpecRC == InitRC /\ [][NextRC]_vars

----------------------------------------------------------------------------
(* The resourceManager called directly, one call at a time *)

\* manager.CreateResource(ctx, typ, owner, data)
RMCreateResource ==
    \E id \in GeneratedIDs, typ \in CreateTypes, owner \in ContractOwners,
       n \in 0..MaxDataLen :
        \E out \in {resourceManager_CreateResource(rdb, id, typ, owner, DataOfLen(n))} :
            /\ rdb' = out.db
            /\ rowner' = IF out.err = NoError THEN MapPut(rowner, id, owner) ELSE rowner
            /\ rlast' = ResourceOp("create", id, owner, owner, out)
            /\ UNCHANGED << rin, rbuf, rout >>
            /\ UNCHANGED << runtimeVars, simVars, parVars, valVars, conVars, nestVars >>

\* manager.TransferResource(ctx, id, from, to)
RMTransferResource ==
    \E id \in GeneratedIDs, from \in ContractOwners, to \in ContractOwners :
        \E out \in {resourceManager_TransferResource(rdb, id, from, to)} :
            /\ rdb' = out.db
            /\ rowner' = IF out.err = NoError THEN MapPut(rowner, id, to) ELSE rowner
            /\ rlast' = ResourceOp("transfer", id, from, to, out)
            /\ UNCHANGED << rin, rbuf, rout >>
            /\ UNCHANGED << runtimeVars, simVars, parVars, valVars, conVars, nestVars >>

\* manager.UpdateResource(ctx, id, data)
RMUpdateResource ==
    \E id \in GeneratedIDs, n \in 0..MaxDataLen :
        \E out \in {resourceManager_UpdateResource(rdb, id, DataOfLen(n))} :
            /\ rdb' = out.db
            /\ rlast' = ResourceOp("update", id, EmptyAddress, EmptyAddress, out)
            /\ UNCHANGED << rin, rbuf, rout, rowner >>
            /\ UNCHANGED << runtimeVars, simVars, parVars, valVars, conVars, nestVars >>

\* manager.DeleteResource(ctx, id)
RMDeleteResource ==
    \E id \in GeneratedIDs :
        \E out \in {resourceManager_DeleteResource(rdb, id)} :
            /\ rdb' = out.db
            /\ rowner' = MapDelete(rowner, id)
            /\ rlast' = ResourceOp("delete", id, EmptyAddress, EmptyAddress, out)
            /\ UNCHANGED << rin, rbuf, rout >>
            /\ UNCHANGED << runtimeVars, simVars, parVars, valVars, conVars, nestVars >>

NextRM ==
    \/ RMCreateResource
    \/ RMTransferResource
    \/ RMUpdateResource
    \/ RMDeleteResource

SpecRM == InitRC /\ [][NextRM]_vars

----------------------------------------------------------------------------
(* Goroutines on one SimulatorState, each inserting, removing and reading    *)
(* a key of its own                                                          *)

\* key := []byte(fmt.Sprintf("key-%d", i))
OwnKey(g) == << 107, 101, 121, 45, 48 + g >>

\* value := []byte(fmt.Sprintf("value-%d", i))
OwnValue(g) == << 118, 97, 108, 117, 101, 45, 48 + g >>

InitSimCon ==
    /\ RuntimeIdle
    /\ SimIdle
    /\ ExtIdle

NextSimCon ==
    \/ \E g \in Goroutines : GoInsert(g, OwnKey(g), OwnValue(g))
    \/ \E g \in Goroutines : GoRemove(g, OwnKey(g))
    \/ \E g \in Goroutines : GoGetValue(g, OwnKey(g))
    \/ \E g \in Goroutines : RLock(g)
    \/ \E g \in Goroutines : LockWait(g)
    \/ \E g \in Goroutines : Lock(g)
    \/ \E g \in Goroutines : SimAccess(g)
    \/ \E g \in Goroutines : Unlock(g)

SpecSimCon == InitSimCon /\ [][NextSimCon]_vars

----------------------------------------------------------------------------
(* Goroutines transferring on the ledger of one SimulatorState *)

ConAccounts == {Addr(1), Addr(2)}

\* the ledger after TransferBalance(EmptyAddress, Addr(1), MaxBalance)
InitialLedger == TransferBalance(<<>>, EmptyAddress, Addr(1), MaxBalance).data

InitBalCon ==
    /\ RuntimeIdle
    /\ data = InitialLedger
    /\ view = "ContractState"
    /\ accountSet = <<>>
    /\ simLast = NoStateOp
    /\ ExtIdle

NextBalCon ==
    \/ \E g \in Goroutines, from \in ConAccounts, to \in ConAccounts,
          amount \in 1..MaxBalance : GoTransferBalance(g, from, to, amount)
    \/ \E g \in Goroutines, a \in ConAccounts : GoGetBalance(g, a)
    \/ \E g \in Goroutines : RLock(g)
    \/ \E g \in Goroutines : LockWait(g)
    \/ \E g \in Goroutines : Lock(g)
    \/ \E g \in Goroutines : SimAccess(g)
    \/ \E g \in Goroutines : Unlock(g)

SpecBalCon == InitBalCon /\ [][NextBalCon]_vars

----------------------------------------------------------------------------
(* ResourceContracts of different owners working on one resource in parallel *)

\* the owners of the ResourceContracts the goroutines call through
RCOwners == {Addr(1), Addr(2)}

\* the one resource, created for the first contract's owner
InitialResources ==
    writeResource(<<>>, NewBaseResource(ResourceID(1), balanceType, Addr(1), <<>>))

\* go rc.TransferResource(id, to), rc the ResourceContract of owner
GoRCTransferResource(g, owner, id, to) ==
    /\ CanCall(g)
    /\ gs' = [gs EXCEPT ![g] = Call(@, "RCTransferResource",
                                    [id |-> id, caller |-> owner, to |-> to])]
    /\ UNCHANGED << mu, runtimeVars, simVars, parVars, valVars, resVars, nestVars >>

\* go rc.UpdateResource(id, data)
GoRCUpdateResource(g, owner, id, bytes) ==
    /\ CanCall(g)
    /\ gs' = [gs EXCEPT ![g] = Call(@, "RCUpdateResource",
                                    [id |-> id, caller |-> owner, data |-> bytes])]
    /\ UNCHANGED << mu, runtimeVars, simVars, parVars, valVars, resVars, nestVars >>

\* go rc.DeleteResource(id)
GoRCDeleteResource(g, owner, id) ==
    /\ CanCall(g)
    /\ gs' = [gs EXCEPT ![g] = Call(@, "RCDeleteResource", [id |-> id, caller |-> owner])]
    /\ UNCHANGED << mu, runtimeVars, simVars, parVars, valVars, resVars, nestVars >>

InitRCCon ==
    /\ RuntimeIdle
    /\ SimIdle
    /\ ParIdle
    /\ ValIdle
    /\ rin = ZeroResource
    /\ rbuf = <<>>
    /\ rout = NotUnmarshaled
    /\ rdb = InitialResources
    /\ rowner = <<>>
    /\ rlast = NoResourceOp
    /\ ConIdle
    /\ NestIdle

NextRCCon ==
    \/ \E g \in Goroutines, owner \in RCOwners, to \in RCOwners :
          GoRCTransferResource(g, owner, ResourceID(1), to)
    \/ \E g \in Goroutines, owner \in RCOwners :
          GoRCUpdateResource(g, owner, ResourceID(1), DataOfLen(1))
    \/ \E g \in Goroutines, owner \in RCOwners :
          GoRCDeleteResource(g, owner, ResourceID(1))
    \/ \E g \in Goroutines : NoLock(g)
    \/ \E g \in Goroutines : RLock(g)
    \/ \E g \in Goroutines : LockWait(g)
    \/ \E g \in Goroutines : Lock(g)
    \/ \E g \in Goroutines : ResAccess(g)
    \/ \E g \in Goroutines : Unlock(g)

SpecRCCon == InitRCCon /\ [][NextRCCon]_vars

----------------------------------------------------------------------------
(* The simulator's exported CallContract: one runtime call behind the FFI *)

ErrInvalidParam == PlainError("invalid parameter")

\* CallContext.CallContract of r.WithDefaults(CallInfo{}): no default to fill in,
\* the caller's CallInfo goes to WasmRuntime.CallContract as it is
CallContext_CallContract(c) == CallContract(c)

\* CallInfo.RemainingFuel: c.inst.store.GetFuel(), a nil dereference when
\* CallContract never bound an instance to the CallInfo
RemainingFuel(instBound, remaining) ==
    IF ~instBound THEN [panic |-> TRUE, fuel |-> 0]
    ELSE [panic |-> FALSE, fuel |-> remaining]

\* newCallContractResponse
newCallContractResponse(f, err) ==
    IF err # NoError THEN [error |-> err, fuel |-> 0]
    ELSE [error |-> NoError, fuel |-> f]

\* the CallInfos the FFI builds: no value attached
FFICallInfos == {c \in CallInfos : c.value = 0}

\* the exported CallContract, up to the runtime call
FFICallContract(statePtr, c) ==
    IF statePtr = "nil"
    THEN /\ pc = "idle"
         /\ res' = Finished(newCallContractResponse(0, ErrInvalidParam).error)
         /\ last' = [NoFuelOp EXCEPT !.op = "CallContractResponse",
                                     !.err = ErrInvalidParam]
         /\ UNCHANGED << pc, ci, cid, inst, store, fuel, balances, contractCache,
                         callerInfo, events, began >>
         /\ UNCHANGED otherThanRuntime
    ELSE CallContext_CallContract(c)

\* the runtime call returned: its deferred deleteCallInfo has run, then the
\* exported CallContract reads callInfo.RemainingFuel() and builds the response;
\* the runtime it made for the call is dropped with its cache
FFIReturn ==
    /\ pc = "return"
    /\ \E rf \in {RemainingFuel(store # 0, fuel)} :
          IF rf.panic
          THEN /\ pc' = "panic"
               /\ UNCHANGED << ci, cid, inst, store, fuel, callerInfo, events, res,
                               began, last, contractCache >>
          ELSE /\ pc' = "idle"
               /\ callerInfo' = deleteCallInfo(callerInfo, store)
               /\ res' = Finished(newCallContractResponse(rf.fuel, res.err).error)
               /\ last' = [NoFuelOp EXCEPT
                              !.op = "CallContractResponse",
                              !.before = fuel,
                              !.after = newCallContractResponse(rf.fuel, res.err).fuel,
                              !.err = res.err]
               /\ ci' = NoCall
               /\ cid' = 0
               /\ inst' = GoodModule
               /\ store' = 0
               /\ fuel' = 0
               /\ events' = <<>>
               /\ began' = [balances |-> balances, entryFuel |-> -1]
               /\ contractCache' = <<>>
    /\ UNCHANGED balances
    /\ UNCHANGED otherThanRuntime

InitFFI ==
    /\ RuntimeInit
    /\ SimIdle
    /\ ExtIdle

NextFFI ==
    \/ \E statePtr \in {"nil", "state"}, c \in FFICallInfos : FFICallContract(statePtr, c)
    \/ getModule
    \/ getInstance
    \/ callBegin
    \/ writeToMemory
    \/ invoke
    \/ \E n \in 0..(MaxFuel + 1) : GuestConsumeFuel(n)
    \/ GuestReturn
    \/ FFIReturn

SpecFFI == InitFFI /\ [][NextFFI]_vars

----------------------------------------------------------------------------
(* Goroutines calling resourceManager, TypeSystem and SimulatorState at once *)

\* go rm.CreateResource(ctx, typ, owner, data); id is what generateResourceID gives
GoCreateResource(g, id, typ, owner, bytes) ==
    /\ CanCall(g)
    /\ gs' = [gs EXCEPT ![g] = Call(@, "CreateResource",
                                    [id |-> id, typ |-> typ, owner |-> owner,
                                     data |-> bytes])]
    /\ UNCHANGED << mu, runtimeVars, simVars, parVars, valVars, resVars, nestVars >>

\* go rm.TransferResource(ctx, id, from, to)
GoTransferResource(g, id, from, to) ==
    /\ CanCall(g)
    /\ gs' = [gs EXCEPT ![g] = Call(@, "TransferResource",
                                    [id |-> id, from |-> from, to |-> to])]
    /\ UNCHANGED << mu, runtimeVars, simVars, parVars, valVars, resVars, nestVars >>

\* go rm.UpdateResource(ctx, id, data)
GoUpdateResource(g, id, bytes) ==
    /\ CanCall(g)
    /\ gs' = [gs EXCEPT ![g] = Call(@, "UpdateResource", [id |-> id, data |-> bytes])]
    /\ UNCHANGED << mu, runtimeVars, simVars, parVars, valVars, resVars, nestVars >>

\* go rm.DeleteResource(ctx, id) and go rm.GetResource(ctx, id)
GoResourceByID(g, op, id) ==
    /\ CanCall(g)
    /\ op \in {"DeleteResource", "GetResource"}
    /\ gs' = [gs EXCEPT ![g] = Call(@, op, [id |-> id])]
    /\ UNCHANGED << mu, runtimeVars, simVars, parVars, valVars, resVars, nestVars >>

\* go ts.RegisterType(ctx, typ) and go ts.ValidateType(typ)
GoTypeSystem(g, op, typ) ==
    /\ CanCall(g)
    /\ op \in {"RegisterType", "ValidateType"}
    /\ RegisterType(types, typ).types = types
    /\ gs' = [gs EXCEPT ![g] = Call(@, op, [typ |-> typ])]
    /\ UNCHANGED << mu, runtimeVars, simVars, parVars, valVars, resVars, nestVars >>

\* go ts.GetType(name)
GoGetType(g, name) ==
    /\ CanCall(g)
    /\ gs' = [gs EXCEPT ![g] = Call(@, "GetType", [name |-> name])]
    /\ UNCHANGED << mu, runtimeVars, simVars, parVars, valVars, resVars, nestVars >>

\* the next step of goroutine g inside the method it is in
Run(g) ==
    \/ NoLock(g)
    \/ RLock(g)
    \/ LockWait(g)
    \/ Lock(g)
    \/ SimAccess(g)
    \/ ResAccess(g)
    \/ Unlock(g)

InitLive ==
    /\ RuntimeIdle
    /\ data = InitialLedger
    /\ view = "ContractState"
    /\ accountSet = <<>>
    /\ simLast = NoStateOp
    /\ ExtIdle

\* the goroutine has calls left to make
MayCall(g) == gs[g].calls < LiveCalls

NextLive ==
    \/ \E g \in Goroutines :
          MayCall(g) /\ GoCreateResource(g, ResourceID(1), balanceType, Addr(1), <<>>)
    \/ \E g \in Goroutines :
          MayCall(g) /\ GoTransferResource(g, ResourceID(1), Addr(1), Addr(2))
    \/ \E g \in Goroutines :
          MayCall(g) /\ GoUpdateResource(g, ResourceID(1), DataOfLen(1))
    \/ \E g \in Goroutines, op \in {"DeleteResource", "GetResource"} :
          MayCall(g) /\ GoResourceByID(g, op, ResourceID(1))
    \/ \E g \in Goroutines, op \in {"RegisterType", "ValidateType"} :
          MayCall(g) /\ GoTypeSystem(g, op, balanceType)
    \/ \E g \in Goroutines : MayCall(g) /\ GoGetType(g, balanceType.Name)
    \/ \E g \in Goroutines : MayCall(g) /\ GoInsert(g, OwnKey(1), OwnValue(1))
    \/ \E g \in Goroutines : MayCall(g) /\ GoRemove(g, OwnKey(1))
    \/ \E g \in Goroutines : MayCall(g) /\ GoGetValue(g, OwnKey(1))
    \/ \E g \in Goroutines : MayCall(g) /\ GoGetBalance(g, Addr(1))
    \/ \E g \in Goroutines : MayCall(g) /\ GoTransferBalance(g, Addr(1), Addr(2), 1)
    \/ \E g \in Goroutines : NoLock(g)
    \/ \E g \in Goroutines : RLock(g)
    \/ \E g \in Goroutines : LockWait(g)
    \/ \E g \in Goroutines : Lock(g)
    \/ \E g \in Goroutines : SimAccess(g)
    \/ \E g \in Goroutines : ResAccess(g)
    \/ \E g \in Goroutines : Unlock(g)

\* the Go scheduler runs every goroutine that can take a step
SpecLive == InitLive /\ [][NextLive]_vars /\ \A g \in Goroutines : WF_vars(Run(g))

----------------------------------------------------------------------------
(* Properties of the orchestrator, under Spec *)

\* C1: when the transfer of the attached value fails, the call returns that
\* error and runs no guest code afterwards: neither alloc nor the entry point.
C1_NoGuestAfterFailedTransfer ==
    \A i \in 1..Len(events) :
        events[i] = "TransferBalance:failed" =>
            /\ ci.value > 0
            /\ pc = "return"
            /\ res.err = PlainError("insufficient balance")
            /\ \A j \in (i + 1)..Len(events) : events[j] \notin {"alloc", "entry"}
            /\ balances = began.balances

\* a call with an attached value that the actor cannot pay has come back
C1_Witness ==
    /\ pc = "return"
    /\ ci.value > 0
    /\ (\E i \in 1..Len(events) : events[i] = "TransferBalance:failed")
    /\ inst.exportsAlloc
    /\ ci.fn \in inst.entries

\* the errors of the Validation and Instance categories that a call can return
IsValidationOrInstanceError(e) ==
    \/ e.type = "ValidationError"
    \/ e.msg \in {"allocation function alloc not found", "memory memory not found"}

\* C2: every validation or instance error of a call (module rejected,
\* instantiation failure, missing memory or alloc export) is raised before the
\* call changed any state: the attached value has not been transferred.
C2_ErrorsBeforeMutation ==
    (pc = "return" /\ ci.via = "CallContract" /\ IsValidationOrInstanceError(res.err))
        => balances = began.balances

\* C3: for a module that getModule rejects, no store or instance is created,
\* no CallInfo is registered and no balance operation is issued.
C3_RejectedModuleTouchesNothing ==
    (\E i \in 1..Len(events) : events[i] = "rejected") =>
        /\ pc = "return"
        /\ res.err.type = "ValidationError"
        /\ events = <<"rejected">>
        /\ store = 0
        /\ callerInfo = <<>>
        /\ balances = began.balances
        /\ cid \notin CacheIDs(contractCache)

\* a rejected module, called with a value the actor could have paid
C3_Witness ==
    /\ pc = "return"
    /\ (\E i \in 1..Len(events) : events[i] = "rejected")
    /\ ci.value > 0
    /\ balances[ci.actor] >= ci.value
    /\ inst.parses /\ inst.instantiates

\* C4: every module in the contract cache passes all the checks of the
\* validator: size, parse, counts, memory and table limits, security rules.
C4_CacheValidated ==
    \A i \in 1..Len(contractCache) : ValidateModule(contractCache[i].mod) = NoError

\* C8: ConsumeFuel(n) is all or nothing: with less than n fuel left it returns
\* out of fuel and leaves the counter alone, otherwise it takes exactly n; the
\* counter never wraps below zero.
C8_ConsumeFuelAllOrNothing ==
    last.op = "ConsumeFuel" =>
        /\ IF last.before < last.n
           THEN last.err = PlainError("out of fuel") /\ last.after = last.before
           ELSE last.err = NoError /\ last.after = last.before - last.n
        /\ last.after >= 0 /\ last.after <= last.before
        /\ pc = "guest" => fuel = last.after

\* the guest asked for more fuel than the store had left, with some left
C8_Witness ==
    /\ last.op = "ConsumeFuel"
    /\ last.before > 0
    /\ last.before < last.n

\* C9: when the guest's entry point starts, the store's fuel is CallInfo.Fuel,
\* through CallContract and through Execute alike.
C9_EntryFuelIsCallInfoFuel ==
    began.entryFuel # -1 => began.entryFuel = ci.fuel

----------------------------------------------------------------------------
(* Properties of the contract-scoped views and the account table, under SpecSim *)

\* C5: Insert and Remove through the state of contract a change no GetValue
\* through the state of another contract b.
C5_ContractStatesIsolated ==
    [][ \A a \in SimAddresses, b \in SimAddresses, k \in GuestKeys :
            (a # b /\ simLast'.op \in {"Insert", "Remove"} /\ simLast'.address = a)
                => View_GetValue(view, data', b, k) = View_GetValue(view, data, b, k) ]_vars

\* contract 1 wrote under a key that contract 2 holds another value under
C5_Witness ==
    /\ simLast.op = "Insert"
    /\ simLast.err = NoError
    /\ simLast.address = Addr(1)
    /\ View_GetValue(view, data, Addr(2), simLast.key).found
    /\ View_GetValue(view, data, Addr(2), simLast.key).value # simLast.value

\* C6: every get, insert and remove of the contract at address A reaches the
\* store with the key A, "/", guest key, whichever view implements it.
C6_KeyIsAddressSlashKey ==
    (simLast.op \in {"GetValue", "Insert", "Remove"} /\ simLast.err = NoError)
        => simLast.storeKey = simLast.address \o <<Separator>> \o simLast.key

\* C7: after SetAccountContract(a, id), directly or through
\* NewAccountWithContract(id), GetAccountContract(a) returns id.
C7_GetAfterSetReturnsID ==
    (simLast.op = "GetAccountContract" /\ simLast.address \in DOMAIN accountSet)
        => (simLast.err = NoError /\ simLast.id = accountSet[simLast.address])

----------------------------------------------------------------------------
(* Properties of the ledger, under SpecBalance *)

\* C10: a successful TransferBalance from a non-empty address takes exactly
\* amount from the sender and gives exactly amount to the recipient as natural
\* numbers, never wrapping, and leaves every other balance alone.
C10_TransferIsExact ==
    (simLast.op = "TransferBalance" /\ simLast.from # EmptyAddress /\ simLast.err = NoError)
        => \A a \in LedgerAddresses :
              simLast.after[a] = simLast.before[a]
                                   - (IF a = simLast.from THEN simLast.amount ELSE 0)
                                   + (IF a = simLast.to THEN simLast.amount ELSE 0)

\* C11: TransferBalance from a non-empty address that holds less than amount
\* returns an error and leaves the ledger as it was: the balance of from, of to
\* and of every other account.
C11_InsufficientFundsChangeNothing ==
    [][ (simLast'.op = "TransferBalance" /\ simLast'.from # EmptyAddress
            /\ GetBalance(data, simLast'.from) < simLast'.amount)
        => (simLast'.err = PlainError("insufficient balance") /\ data' = data) ]_vars

\* a refused transfer between two accounts that both hold something
C11_Witness ==
    /\ simLast.op = "TransferBalance"
    /\ simLast.from # EmptyAddress
    /\ simLast.from # simLast.to
    /\ simLast.err # NoError
    /\ simLast.before[simLast.from] > 0
    /\ simLast.before[simLast.to] > 0
    /\ simLast.after = simLast.before

----------------------------------------------------------------------------
(* Properties of parallel invocations, under SpecPar *)

\* C12: with several CallContract invocations in parallel on one runtime, no
\* two threads access the callerInfo map at the same time with one of them
\* writing, and getCallInfo returns the CallInfo of the store's own invocation.
C12_ParallelCallsDoNotRace ==
    /\ \A t \in Threads, u \in Threads : (t # u /\ Writing(t)) => ~Accessing(u)
    /\ \A t \in Threads : tgot[t] \in {"none", "own"}

----------------------------------------------------------------------------
(* Properties of module validation, under SpecVal *)

\* the checks in the order the validator is said to apply them
Stages == <<"size", "parse", "counts", "memory", "table", "types", "custom">>

\* the check an error of ValidateModule comes from
StageOf(e) ==
    CASE e = NoError -> "none"
      [] e.rule = "contract-size" -> "size"
      [] e.rule = "parse" -> "parse"
      [] e.rule = "resource-limits" ->
            IF e.msg \in {"minimum memory pages exceeds limit",
                          "maximum memory pages exceeds limit"} THEN "memory"
            ELSE IF e.msg \in {"minimum table size exceeds limit",
                               "maximum table size exceeds limit"} THEN "table"
            ELSE "counts"
      [] e.rule = "default-memory" -> "memory"
      [] e.rule = "default-instructions" -> "types"
      [] OTHER -> "custom"

\* module m fails the given check of validator v, taken alone
FailsStage(stage, v, m) ==
    CASE stage = "size" -> m.size > MaxContractSize
      [] stage = "parse" -> ~m.parses
      [] stage = "counts" ->
            \/ m.nExports > MaxExports \/ m.nImports > MaxImports
            \/ m.nFuncs > MaxFunctions \/ m.nGlobals > MaxGlobals
      [] stage = "memory" ->
            /\ m.memDeclared /\ m.memExported
            /\ \/ m.memMin > MaxMemoryPages
               \/ m.memHasMax /\ m.memMax > MaxMemoryPages
               \/ \E i \in 1..Len(v.defaultRules) :
                     v.defaultRules[i].type = "memory"
                     /\ ApplyRule(m, v.defaultRules[i]) # NoError
      [] stage = "table" ->
            /\ m.tblExported
            /\ (m.tblMin > MaxTableSize \/ (m.tblHasMax /\ m.tblMax > MaxTableSize))
      [] stage = "types" ->
            \E i \in 1..Len(v.defaultRules) :
                v.defaultRules[i].type = "instruction"
                /\ ApplyRule(m, v.defaultRules[i]) # NoError
      [] OTHER -> ValidateSecurityRules(m, v.customRules) # NoError

\* the first check of Stages that m fails under v
FirstFailingStage(v, m) ==
    IF \A i \in 1..Len(Stages) : ~FailsStage(Stages[i], v, m) THEN "none"
    ELSE Stages[CHOOSE i \in 1..Len(Stages) :
                    /\ FailsStage(Stages[i], v, m)
                    /\ \A j \in 1..(i - 1) : ~FailsStage(Stages[j], v, m)]

\* C13: ValidateModule checks size, parseability, counts, memory limits, table
\* limits, signature types and then the custom rules in registration order, and
\* returns the error of the first of these checks that the module fails.
C13_ChecksInStatedOrder ==
    vres.module # NotYet
        => /\ StageOf(vres.module) = FirstFailingStage(vcfg, vmod)
           /\ StageOf(vres.module) = "custom"
                 => vres.module = ValidateSecurityRules(vmod, vcfg.customRules)

\* C14: with memory.grow denied (the default rules), ValidateModule accepts a
\* module only if every memory it declares, exported or not, has a maximum and
\* has minimum and maximum at most MaxMemoryPages; a bounded memory with a
\* minimum of MaxMemoryPages + 1 is rejected.
C14_EveryDeclaredMemoryBounded ==
    (vres.module # NotYet /\ vcfg.defaultRules = defaultSecurityRules /\ vmod.memDeclared)
        => /\ vres.module = NoError
                => /\ vmod.memHasMax
                   /\ vmod.memMin <= MaxMemoryPages
                   /\ vmod.memMax <= MaxMemoryPages
           /\ (vmod.memHasMax /\ vmod.memMin = MaxMemoryPages + 1)
                => vres.module.type = "ValidationError"

\* the rule names of the model that contain "memory"
MemoryRuleNames == {"default-memory", "custom-memory-limits"}

\* C15: a module whose code uses memory.grow is rejected under the default
\* rules, and under WithRestrictedInstructions, with a ValidationError whose
\* rule name contains "memory", whatever its memory limits and signatures are.
C15_MemoryGrowRejected ==
    (/\ vres.module # NotYet
     /\ vmod.usesGrow /\ vmod.parses /\ vmod.size <= MaxContractSize
     /\ ~FailsStage("counts", vcfg, vmod) /\ ~FailsStage("table", vcfg, vmod)
     /\ \/ vcfg.defaultRules = defaultSecurityRules
        \/ \E i \in 1..Len(vcfg.customRules) : vcfg.customRules[i] = RestrictedInstructionsRule)
        => /\ vres.module.type = "ValidationError"
           /\ vres.module.rule \in MemoryRuleNames

C17_SizeCheckBoundary ==
    /\ vres.module # NotYet
          => IF vmod.size > MaxContractSize
             THEN vres.module.type = "ValidationError" /\ vres.module.rule = "contract-size"
             ELSE vres.module.rule # "contract-size"
    /\ vres.runtime # NotYet
          => IF vmod.size > MaxContractSize
             THEN vres.runtime.type = "ValidationError" /\ vres.runtime.rule = "contract-size"
             ELSE vres.runtime.rule # "contract-size"

\* a module one byte over MaxContractSize that does not parse either was
\* rejected for its size by the validator and by the runtime
C17_Witness ==
    /\ vmod.size = MaxContractSize + 1
    /\ ~vmod.parses
    /\ vres.module.rule = "contract-size"
    /\ vres.runtime.rule = "contract-size"

\* C18: every ValidationError of the module acceptance pipeline (getModule and
\* validateModule of the runtime, ValidateModule and ValidateResourceLimits of
\* the validator and its rules) carries the non-empty name of the failed rule.
C18_ValidationErrorsNameTheRule ==
    \A f \in {"module", "limits", "runtime"} :
        vres[f].type = "ValidationError" => vres[f].rule # ""

----------------------------------------------------------------------------
(* C19: Marshal and Unmarshal of BaseResource round-trip: when the bytes     *)
(* that Marshal produced for a resource are unmarshalled into a fresh        *)
(* BaseResource, Unmarshal succeeds and the result has the resource's ID,    *)
(* type name, owner, moved flag and data.                                    *)
C19_MarshalRoundTrips ==
    (rout # NotUnmarshaled /\ rbuf # <<>> /\ rout.bytes = rbuf) =>
        /\ rout.err = NoError
        /\ rout.r.id = rin.id
        /\ rout.r.typ.Name = rin.typ.Name
        /\ rout.r.ownerAddr = rin.ownerAddr
        /\ rout.r.moved = rin.moved
        /\ rout.r.data = rin.data

----------------------------------------------------------------------------
(* C20: only the current owner can change a resource through a              *)
(* ResourceContract.  When the contract's owner differs from the owner the   *)
(* resource was created with or last transferred to, TransferResource,       *)
(* UpdateResource and DeleteResource return ErrInvalidResourceOperation and  *)
(* the stored resource stays as it was; and after a transfer DeleteResource  *)
(* is refused to the previous owner's contract and granted to the new        *)
(* owner's.                                                                  *)
C20_OnlyOwnerChangesResource ==
    /\ ( /\ rlast.op \in {"transfer", "update", "delete"}
         /\ rlast.before # <<>>
         /\ rlast.caller # rlast.ownerBefore )
       => /\ rlast.err = ErrInvalidResourceOperation
          /\ Stored(rdb, rlast.id) = rlast.before
    /\ ( /\ rlast.op = "transfer"
         /\ rlast.err = NoError )
       => /\ rlast.ownerBefore # rlast.to =>
                ResourceContract_DeleteResource(rlast.ownerBefore, rdb, rlast.id).err
                    = ErrInvalidResourceOperation
          /\ ResourceContract_DeleteResource(rlast.to, rdb, rlast.id).err = NoError

----------------------------------------------------------------------------
(* C21: resourceManager.TransferResource(id, from, to) succeeds exactly when *)
(* the resource exists and the owner it was created with or last            *)
(* transferred to equals from; after a success the stored resource reads     *)
(* back with owner to, moved set, and the ID, type and data it had; when     *)
(* the owner differs from from the call returns ErrInvalidTransfer and the   *)
(* stored bytes are as before.                                               *)
C21_TransferExactlyByOwner ==
    rlast.op = "transfer" =>
        LET existed == rlast.before # <<>>
            was     == Unmarshal(ZeroResource, rlast.before).r
            now     == GetResource(rdb, rlast.id)
        IN  /\ (rlast.err = NoError) <=> (existed /\ rlast.ownerBefore = rlast.caller)
            /\ rlast.err = NoError =>
                  /\ now.err = NoError
                  /\ now.r.ownerAddr = rlast.to
                  /\ now.r.moved
                  /\ now.r.id = was.id
                  /\ now.r.typ = was.typ
                  /\ now.r.data = was.data
            /\ (existed /\ rlast.ownerBefore # rlast.caller) =>
                  /\ rlast.err = ErrInvalidTransfer
                  /\ Stored(rdb, rlast.id) = rlast.before

----------------------------------------------------------------------------
(* C28: resourceManager.UpdateResource(id, data) changes only the data: the  *)
(* stored resource reads back after a successful update with the ID, type,   *)
(* owner and moved flag it read back with before, so a resource marked       *)
(* moved by a transfer is still marked moved.                                *)
C28_UpdateChangesOnlyData ==
    (rlast.op = "update" /\ rlast.err = NoError) =>
        LET was == Unmarshal(ZeroResource, rlast.before).r
            now == GetResource(rdb, rlast.id).r
        IN  /\ now.id = was.id
            /\ now.typ = was.typ
            /\ now.ownerAddr = was.ownerAddr
            /\ now.moved = was.moved

----------------------------------------------------------------------------
----------------------------------------------------------------------------
\* the amounts of the transfers in seq that take from (side = "from") or give
\* to (side = "to") account a, added up
RECURSIVE Moved(_, _, _)
Moved(seq, side, a) ==
    IF seq = <<>> THEN 0
    ELSE (IF Head(seq)[side] = a THEN Head(seq).amount ELSE 0) + Moved(Tail(seq), side, a)

\* the same over the successful transfers of the goroutines in G
RECURSIVE MovedByAll(_, _, _)
MovedByAll(G, side, a) ==
    IF G = {} THEN 0
    ELSE LET g == CHOOSE x \in G : TRUE
         IN  Moved(gs[g].done, side, a) + MovedByAll(G \ {g}, side, a)

(* C26: concurrent SimulatorState.TransferBalance calls, none from the empty *)
(* address, end as some sequential order of them would.  Once every call has *)
(* returned, the sum of all balances is what it was before the calls, and an *)
(* account that no successful transfer gave to has been debited by the       *)
(* successful transfers at most the balance it held before they started.     *)
C26_TransfersLinearizable ==
    (\A g \in Goroutines : gs[g].pc = "idle") =>
        /\ GetBalance(data, Addr(1)) + GetBalance(data, Addr(2))
              = GetBalance(InitialLedger, Addr(1)) + GetBalance(InitialLedger, Addr(2))
        /\ \A a \in ConAccounts :
              MovedByAll(Goroutines, "to", a) = 0
                 => MovedByAll(Goroutines, "from", a) <= GetBalance(InitialLedger, a)

----------------------------------------------------------------------------
(* Nested calls: a guest calling another contract through call_contract *)

\* deepest nesting of call_contract the model follows
MaxDepth == 1

\* the accounts a guest calls: one with a good module, one that holds nothing
NestedTargets == {ContractAddr(1), UnknownAccount}

\* the CallInfo the call_contract import derives from its caller's: the callee
\* and what the guest passed, the actor still the top-level initiator
DerivedCallInfo(parent, contract, fn, f, value) ==
    [contract |-> contract, actor |-> parent.actor, fn |-> fn, fuel |-> f,
     value |-> value, via |-> "CallContract"]

\* the guest calls call_contract: the fuel it passes on is reserved from its own,
\* its invocation is suspended, and CallContract starts on the derived CallInfo
call_contract(contract, f, value) ==
    /\ pc = "guest"
    /\ Len(frames) < MaxDepth
    /\ ConsumeFuel(fuel, f).err = NoError
    /\ frames' = <<[ci |-> ci, cid |-> cid, inst |-> inst, store |-> store,
                    fuel |-> ConsumeFuel(fuel, f).fuel, began |-> began,
                    events |-> events]>> \o frames
    /\ ci' = DerivedCallInfo(ci, contract, "run", f, value)
    /\ store' = 0
    /\ fuel' = 0
    /\ events' = <<>>
    /\ inst' = GoodModule
    /\ IF State_GetAccountContract(contract) = 0
       THEN /\ res' = Pending(PlainError("account has no contract"))
            /\ pc' = "return"
            /\ cid' = 0
       ELSE /\ res' = Pending(NoError)
            /\ pc' = "getModule"
            /\ cid' = State_GetAccountContract(contract)
    /\ UNCHANGED << balances, contractCache, callerInfo, began, last >>
    /\ UNCHANGED << simVars, parVars, valVars, resVars, conVars >>

\* the nested CallContract returns into the guest that called it: its deferred
\* deleteCallInfo runs, the fuel it left is added back to the caller's
call_contract_return ==
    /\ pc = "return"
    /\ frames # <<>>
    /\ LET caller == Head(frames)
       IN  /\ callerInfo' = IF store # 0 THEN deleteCallInfo(callerInfo, store)
                                         ELSE callerInfo
           /\ ci' = caller.ci
           /\ cid' = caller.cid
           /\ inst' = caller.inst
           /\ store' = caller.store
           /\ fuel' = (caller.fuel + fuel) % UintMod
           /\ began' = caller.began
           /\ events' = caller.events
    /\ frames' = Tail(frames)
    /\ res' = Pending(NoError)
    /\ pc' = "guest"
    /\ UNCHANGED << balances, contractCache, last >>
    /\ UNCHANGED << simVars, parVars, valVars, resVars, conVars >>

\* the top-level invocation returns to the caller of the runtime
TopLevelReturn ==
    /\ frames = <<>>
    /\ Return

\* the ledger the nested runs start from: the initiator and the contracts hold funds
InitNested ==
    /\ RuntimeInit
    /\ SimIdle
    /\ ExtIdle

NestedCallInfos ==
    {c \in CallInfos : c.contract = ContractAddr(1) /\ c.fn = "run"}

NextNested ==
    \/ \E c \in NestedCallInfos : CallContract(c)
    \/ getModule
    \/ getInstance
    \/ callBegin
    \/ writeToMemory
    \/ invoke
    \/ \E n \in 0..MaxFuel : GuestConsumeFuel(n)
    \/ GuestReturn
    \/ \E contract \in NestedTargets, f \in 0..MaxFuel, value \in {0, 1, MaxValue} :
          call_contract(contract, f, value)
    \/ call_contract_return
    \/ TopLevelReturn

SpecNested == InitNested /\ [][NextNested]_vars

\* C23: in a nested call the attached value is debited from the contract that is
\* executing and issues the call, not from the actor of the top-level call:
\* the transfer that call makes for a nested CallInfo is the transfer from the
\* suspended caller's contract address to the callee
C23_NestedValueFromExecutingContract ==
    [][(pc = "call" /\ frames # <<>> /\ ci.value > 0 /\ pc' # "call")
          => LET t == TestStateManager_TransferBalance(
                          balances, Head(frames).ci.contract, ci.contract, ci.value)
             IN  /\ balances' = t.bal
                 /\ res'.err = t.err]_vars

----------------------------------------------------------------------------
(* The lifetime of a CallInfo's registration, under Spec *)

\* the invocation in progress went through getInstance: it has a store
ReachedInstantiation == ci.via = "CallContract" /\ store # 0

\* C24: a CallContract invocation that reached instantiation has its CallInfo
\* registered under its store's key before any guest code (alloc, the entry
\* function) runs and for as long as the invocation lasts; the entry is removed
\* when the invocation returns, on every path, and the map is empty whenever no
\* invocation is in progress.
C24_CallInfoRegisteredWhileRunning ==
    /\ [](ReachedInstantiation
            => /\ pc \in {"call", "write", "invoke", "guest", "return"}
               /\ store \in DOMAIN callerInfo
               /\ callerInfo[store] = ci
               /\ \A i \in DOMAIN events :
                     events[i] \in {"alloc", "entry"}
                        => \E j \in 1..(i - 1) : events[j] = "setCallInfo")
    /\ []((ci.via = "CallContract" /\ pc \in {"write", "invoke", "guest"})
            => ReachedInstantiation)
    /\ [](pc = "idle" => callerInfo = <<>>)
    /\ [][(ReachedInstantiation /\ pc = "return" /\ pc' = "idle")
            => /\ store \in DOMAIN callerInfo
               /\ callerInfo' = <<>>]_vars

\* the guest trapped in the entry function of a registered invocation, which is
\* about to return
C24_Witness ==
    /\ ReachedInstantiation
    /\ pc = "return"
    /\ res.err = PlainError("trap")
    /\ \E i \in DOMAIN events : events[i] = "entry"
    /\ callerInfo[store] = ci

----------------------------------------------------------------------------
(* The custom memory limit, under SpecVal *)

\* C25: a validator built with WithCustomMemoryLimits(maxPages) rejects every
\* module with an exported memory whose minimum, or whose declared maximum, is
\* above maxPages: ValidateModule runs the check the option installed.
C25_CustomMemoryLimitEnforced ==
    (/\ vres.module # NotYet
     /\ \E i \in DOMAIN vcfg.customRules :
           vcfg.customRules[i] = CustomMemoryLimitsRule(CustomMaxPages)
     /\ vmod.memDeclared /\ vmod.memExported
     /\ \/ vmod.memMin > CustomMaxPages
        \/ vmod.memHasMax /\ vmod.memMax > CustomMaxPages)
        => vres.module # NoError

----------------------------------------------------------------------------
(* ResourceContract operations in parallel, under SpecRCCon *)

\* C27: under every interleaving of ResourceContract operations of contracts
\* with different owners on one resource, an update or a delete is applied to
\* the store only when the resource's owner at that moment is the owner of the
\* contract the operation came through: once a concurrent TransferResource has
\* given the resource away, an UpdateResource or DeleteResource that had passed
\* its owner check takes no effect.
C27_WriteOnlyByCurrentOwner ==
    [][\A g \in Goroutines :
          (/\ gs[g].pc = "locked"
           /\ gs'[g].pc = "unlock"
           /\ gs[g].op \in {"RCUpdateResource", "RCDeleteResource"}
           /\ rdb' # rdb)
             => GetOwner(rdb, gs[g].args.id).owner = gs[g].args.caller]_vars

----------------------------------------------------------------------------
(* The exported CallContract, under SpecFFI *)

\* C29: whenever the runtime call fails, the exported CallContract returns a
\* response that carries the error and does not crash, also when the failure
\* came before any instance existed: reading the remaining fuel of a CallInfo
\* no instance was bound to is safe.
C29_FFIReturnsTheError ==
    [][(pc = "return" /\ res.err # NoError)
          => /\ pc' = "idle"
             /\ res' = Finished(res.err)
             /\ last'.err = res.err]_vars

----------------------------------------------------------------------------
(* Termination of the locking methods, under SpecLive *)

\* C30: no deadlock.  With the goroutines scheduled fairly, every call a
\* goroutine makes into resourceManager, TypeSystem or SimulatorState
\* eventually returns, and once every call has returned every mutex is free.
C30_EveryCallReturns ==
    /\ \A g \in Goroutines : (gs[g].pc # "idle") ~> (gs[g].pc = "idle")
    /\ []((\A g \in Goroutines : gs[g].pc = "idle") => mu = [m \in Mutexes |-> Unlocked])

\* a goroutine waits in Lock for a mutex another goroutine holds
C30_Witness ==
    \E g \in Goroutines, h \in Goroutines :
        /\ g # h
        /\ gs[g].pc = "waiting"
        /\ mu[Current(gs[g]).m].writer = h

====
